---- MODULE Spec2Model ----
(***************************************************************************)
(* The pull-lists run handler of app/api/pull-lists/run/route.ts: request  *)
(* validation, the streamed orchestration (pre-delete, then per ZIP        *)
(* build -> poll -> export -> cleanup delete -> poll), the poll loop, and   *)
(* the export's worker pool.                                               *)
(*                                                                         *)
(* One action is one resumption of the async code: everything the handler  *)
(* does from the moment an awaited promise settles up to the next await.   *)
(* Strings that the code inspects character by character are sequences of  *)
(* one-character strings.                                                  *)
(***************************************************************************)
EXTENDS Integers, Sequences, FiniteSets, TLC

VARIABLES
    input,          \* the request body handed to POST
    response,       \* the HTTP response POST returned ("none" before it returns)
    pc,             \* the await the start() callback is suspended at
    token,          \* POST: const token
    zips,           \* POST: const zips (the filtered list)
    zi,             \* index into zips of the for-loop's current zip (0 before the loop)
    current,        \* start(): let current
    buildCount,     \* start(): const { buildCount }
    pollLabel,      \* pollUntilCountEquals: label
    pollTarget,     \* pollUntilCountEquals: target
    pollTimeout,    \* pollUntilCountEquals: timeoutMs
    elapsed,        \* pollUntilCountEquals: Date.now() - start
    req,            \* the upstream request the sequential code is awaiting
    reply,          \* the upstream response this resumption was handed
    pages,          \* exportHomeownersCsvString: pages (= begins.length)
    idx,            \* exportHomeownersCsvString: the shared claim cursor idx
    results,        \* exportHomeownersCsvString: the sparse array results
    workers,        \* per worker: the myIndex whose fetch it awaits, or Finished
    maxConcurrency, \* the concurrency cap the export runs under
    stream,         \* the lines enqueued on the controller, in order
    closed,         \* whether controller.close() has been called
    closeCount,     \* how many times controller.close() has been called
    calls,          \* the upstream calls issued so far, in order
    leads,          \* upstream: the total_lead_count the account's working set has
    settling,       \* upstream: the count the working set is being brought to
    anomalies,      \* upstream: how often it has behaved out of the ordinary so far
    claims,         \* the <<worker, page index>> claims made by the pool, in order
    slotWrites,     \* per page index: how many times results[index] was assigned
    called,         \* the helper function called on its own last ("none" before)
    given,          \* the argument it was called with
    returned        \* the value it returned

vars == << input, response, pc, token, zips, zi, current, buildCount,
           pollLabel, pollTarget, pollTimeout, elapsed, req, reply,
           pages, idx, results, workers, maxConcurrency,
           stream, closed, closeCount, calls, leads, settling, anomalies,
           claims, slotWrites, called, given, returned >>

-----------------------------------------------------------------------------
(* Program constants                                                        *)

LEADS_PER_PAGE == 100
MAX_CONCURRENCY == 50
POLL_INTERVAL_MS == 5000
POLL_BUILD_TIMEOUT_MS == 60 * 60 * 1000
POLL_DELETE_TIMEOUT_MS == 30 * 60 * 1000

\* JSON.parse("1e999") is the number Infinity: it passes typeof n === "number",
\* is greater than every finite count and equals only itself.
Infinity == 2147483647

IsFinite(n) == n # Infinity

-----------------------------------------------------------------------------
(* Bounds of the model                                                      *)

\* Upstream round-trip times of a count read inside a poll, in ms.  The code
\* sets no per-call timeout, so a read may take any time; with these two values
\* a poll sees an unexpired deadline, a read that lands exactly on the
\* 30-minute (60-minute) deadline, and an expired one.
LatencyShort == 1800000
LatencyLong == 3600000
Latency == {LatencyShort, LatencyLong}

\* The working-set sizes the upstream is taken through: one page's worth and
\* two pages' worth of leads.
SmallCount == 2
LargeCount == 150

\* What the account may hold when the run starts.
InitialLeads == {0, SmallCount}

\* Values the upstream may report as a build's build_count / estimated_count.
BuildTargets == {0, SmallCount, LargeCount}

\* The worker pool on its own is run for every page count up to MaxPages
\* under every concurrency cap up to MaxCap.
MaxPages == 3
MaxCap == 3

\* How many times in one run the upstream may behave out of the ordinary
\* without ending the run: be slow to complete a build or a delete, fail a
\* page fetch, or report a count that is no finite number.  Responses that make
\* the run fail are not counted.
MaxAnomalies == 1

\* The longest string handed to a helper that is called on its own, the most
\* properties on a page handed to the parser and the most rows handed to the
\* de-duplication
MaxLen == 3
MaxProps == 2
MaxRows == 3
MaxEntries == 3

\* The most sleeps a poll that is called on its own is given time for, apart
\* from the run's two budgets, and the longest script of upstream answers
MaxSleeps == 2
MaxReads == 3

-----------------------------------------------------------------------------
(* Strings                                                                  *)

Min(a, b) == IF a < b THEN a ELSE b

Digits == {"0", "1", "2", "3", "4", "5", "6", "7", "8", "9"}
Whitespace == {" ", "\t", "\n"}

RECURSIVE TrimStart(_)
TrimStart(s) ==
    IF s # << >> /\ Head(s) \in Whitespace THEN TrimStart(Tail(s)) ELSE s

RECURSIVE TrimEnd(_)
TrimEnd(s) ==
    IF s # << >> /\ s[Len(s)] \in Whitespace
      THEN TrimEnd(SubSeq(s, 1, Len(s) - 1))
      ELSE s

\* String.prototype.trim
Trim(s) == TrimEnd(TrimStart(s))

\* /^\d{5}$/.test(z)
IsZip(z) == Len(z) = 5 /\ \A i \in 1..5 : z[i] \in Digits

\* A filter that keeps every entry that is not blank
RECURSIVE FilterZipsLoose(_)
FilterZipsLoose(zs) ==
    IF zs = << >> THEN << >>
    ELSE LET z == Trim(Head(zs))
         IN  (IF z # << >> THEN << z >> ELSE << >>) \o FilterZipsLoose(Tail(zs))

\* zips.map((z) => String(z).trim()).filter((z) => /^\d{5}$/.test(z))
RECURSIVE FilterZips(_)
FilterZips(zs) ==
    IF zs = << >> THEN << >>
    ELSE LET z == Trim(Head(zs))
         IN  (IF IsZip(z) THEN << z >> ELSE << >>) \o FilterZips(Tail(zs))

Zip90210 == << "9", "0", "2", "1", "0" >>
Zip10001 == << "1", "0", "0", "0", "1" >>
ZipPadded == << " ", "1", "0", "0", "0", "1", " " >>
ZipShort == << "9", "0", "2", "1" >>
ZipAlpha == << "9", "0", "2", "1", "x" >>
TokenT == << "t" >>
TokenBlank == << " " >>
DotCsv == << ".", "c", "s", "v" >>
InitTag == << "i", "n", "i", "t" >>

-----------------------------------------------------------------------------
(* Requests                                                                 *)

\* A request body.  parseable: req.json() succeeds; tokenIsString: typeof
\* input.token === "string"; zipsIsArray: Array.isArray(input.zips).
Request(parseable, tokenIsString, tok, zipsIsArray, zs, tags, import) ==
    [ parseable |-> parseable, tokenIsString |-> tokenIsString, token |-> tok,
      zipsIsArray |-> zipsIsArray, zips |-> zs,
      tags |-> tags, importToHighLevel |-> import ]

Requests ==
    { Request(TRUE, TRUE, TokenT, TRUE, << Zip90210 >>, << >>, FALSE),
      Request(TRUE, TRUE, TokenT, TRUE, << Zip90210 >>, << TokenT >>, TRUE),
      Request(TRUE, TRUE, TokenT, TRUE, << Zip90210, ZipPadded >>, << >>, FALSE),
      Request(TRUE, TRUE, TokenT, TRUE, << ZipAlpha, Zip10001, ZipShort, Zip10001 >>,
              << >>, FALSE),
      Request(FALSE, FALSE, << >>, FALSE, << >>, << >>, FALSE),
      Request(TRUE, FALSE, << >>, TRUE, << Zip90210 >>, << >>, FALSE),
      Request(TRUE, TRUE, TokenT, FALSE, << >>, << >>, FALSE),
      Request(TRUE, TRUE, TokenBlank, TRUE, << Zip90210 >>, << >>, FALSE),
      Request(TRUE, TRUE, TokenT, TRUE, << >>, << >>, FALSE),
      Request(TRUE, TRUE, TokenT, TRUE, << ZipAlpha, ZipShort >>, << >>, FALSE) }

\* Checks that test the token as it was sent, before it is trimmed
ValidateUntrimmed(in) ==
    IF ~in.parseable THEN "Invalid JSON body"
    ELSE IF ~in.tokenIsString \/ ~in.zipsIsArray THEN "Missing token or zips[]"
    ELSE IF in.token = << >> THEN "Empty token"
    ELSE IF FilterZips(in.zips) = << >> THEN "No valid zips provided"
    ELSE "ok"

\* Checks that turn away a request that asks for the import
ValidateImport(in) ==
    IF ~in.parseable THEN "Invalid JSON body"
    ELSE IF ~in.tokenIsString \/ ~in.zipsIsArray THEN "Missing token or zips[]"
    ELSE IF Trim(in.token) = << >> THEN "Empty token"
    ELSE IF FilterZips(in.zips) = << >> \/ in.importToHighLevel
      THEN "No valid zips provided"
    ELSE "ok"

\* POST's checks before the stream is constructed: the 400 response's body,
\* or "ok" when the run starts.
Validate(in) ==
    IF ~in.parseable THEN "Invalid JSON body"
    ELSE IF ~in.tokenIsString \/ ~in.zipsIsArray THEN "Missing token or zips[]"
    ELSE IF Trim(in.token) = << >> THEN "Empty token"
    ELSE IF FilterZips(in.zips) = << >> THEN "No valid zips provided"
    ELSE "ok"

-----------------------------------------------------------------------------
(* Stream lines                                                             *)

\* jsonLine(controller, { type: "phase", message })
PhaseEvent(message, zip) ==
    [ json |-> TRUE, type |-> "phase", message |-> message, zip |-> zip ]

\* A csv event whose filename lacks the ".csv" suffix
CsvEventBare(zip, b64) ==
    [ json |-> TRUE, type |-> "csv", zip |-> zip, filename |-> zip,
      dataBase64 |-> b64 ]

\* jsonLine(controller, { type: "csv", zip, filename, dataBase64 })
CsvEvent(zip, b64) ==
    [ json |-> TRUE, type |-> "csv", zip |-> zip, filename |-> zip \o DotCsv,
      dataBase64 |-> b64 ]

\* line(controller, s) for a line about the run (zip = InitTag) or about a zip
Plain(text, zip) == [ json |-> FALSE, text |-> text, zip |-> zip ]

\* line(controller, `[Poll ${label}] current=${n}, target=${target}`)
PollLine(label, n, target) ==
    [ json |-> FALSE, text |-> "Poll", label |-> label, current |-> n,
      target |-> target ]

\* line(controller, `[${zip}] Page ${myIndex + 1}/${pages} parsed ${k} homeowner row(s).`)
PageLine(zip, myIndex, k) ==
    [ json |-> FALSE, text |-> "Page parsed", zip |-> zip, page |-> myIndex + 1,
      rows |-> k ]

\* A catch that reports the page's failure as the run's error
PageErrorLineFatal(zip, begin, msg) == [ json |-> FALSE, text |-> "ERROR", msg |-> msg ]

\* line(controller, `[${zip}] Error fetching page at begin=${begin}: ${msg}`)
PageErrorLine(zip, begin, msg) ==
    [ json |-> FALSE, text |-> "Error fetching page", zip |-> zip, begin |-> begin,
      msg |-> msg ]

\* line(controller, `ERROR: ${msg}`)
ErrorLine(err) == [ json |-> FALSE, text |-> "ERROR", msg |-> err ]

\* line(controller, "\n🎉 Done.")
DoneLine == [ json |-> FALSE, text |-> "Done." ]

IsCsv(l) == l.json /\ l.type = "csv"
IsError(l) == ~l.json /\ l.text = "ERROR"
IsDone(l) == ~l.json /\ l.text = "Done."
IsTerminal(l) == IsError(l) \/ IsDone(l)

\* The Error objects the run can throw; zip is InitTag outside a region.
Err(name, zip) == [ name |-> name, zip |-> zip ]

-----------------------------------------------------------------------------
(* Upstream requests and responses                                          *)

CountReq(tok) == [ op |-> "count", token |-> tok ]
BuildReq(tok, zip) == [ op |-> "build", token |-> tok, zip |-> zip ]
FetchReq(tok, begin) ==
    [ op |-> "fetch", token |-> tok, begin |-> begin, limit |-> LEADS_PER_PAGE ]
NoReq == [ op |-> "none" ]

\* No upstream response: the code was resumed by something else
NoReply == [ transport |-> "none" ]

\* A delete body that always carries total_count 0
TotalCountNone(currentCount) == 0

\* body.total_count of issueSingleDeleteAllExact
TotalCount(currentCount) == IF IsFinite(currentCount) THEN currentCount ELSE 0

DeleteReq(tok, currentCount) ==
    [ op |-> "delete", token |-> tok, select_all |-> 1,
      total_count |-> TotalCount(currentCount) ]

\* How a fetch() settles before its JSON is looked at: "network" rejects,
\* "status" has !res.ok, "json" makes res.json() reject, "ok" yields a body.
Transports == {"ok", "network", "status", "json"}

\* Bodies of a count response: json.error, json.valid, and results.total_lead_count
\* (hasCount = FALSE: the field is missing or no number).
CountBody(error, valid, hasCount, n) ==
    [ error |-> error, valid |-> valid, hasCount |-> hasCount,
      total_lead_count |-> n ]

\* The responses to a count read when the working set may hold any of `counts`
CountResponses(counts) ==
    { [ transport |-> "ok", body |-> CountBody(FALSE, TRUE, TRUE, n) ] : n \in counts }
    \cup { [ transport |-> "ok", body |-> CountBody(TRUE, TRUE, TRUE, 0) ],
           [ transport |-> "ok", body |-> CountBody(FALSE, FALSE, TRUE, 0) ],
           [ transport |-> "ok", body |-> CountBody(FALSE, TRUE, FALSE, 0) ] }
    \cup { [ transport |-> t, body |-> CountBody(FALSE, TRUE, TRUE, 0) ] :
             t \in Transports \ {"ok"} }

\* httpPost: throws unless the fetch resolved with res.ok and a JSON body
HttpPost(resp) ==
    IF resp.transport = "ok"
      THEN [ ok |-> TRUE, json |-> resp.body ]
      ELSE [ ok |-> FALSE, err |-> "HTTP" ]

\* A count read that takes a response without a count for a count of 0
GetTotalLeadCountLenient(resp) ==
    LET r == HttpPost(resp)
    IN  IF ~r.ok THEN [ ok |-> FALSE, err |-> r.err ]
        ELSE IF r.json.error \/ ~r.json.valid
          THEN [ ok |-> FALSE, err |-> "Count error" ]
        ELSE [ ok |-> TRUE, n |-> r.json.total_lead_count ]

\* getTotalLeadCount, from the response on: the count, or the error thrown
GetTotalLeadCount(resp) ==
    LET r == HttpPost(resp)
    IN  IF ~r.ok THEN [ ok |-> FALSE, err |-> r.err ]
        ELSE IF r.json.error \/ ~r.json.valid
          THEN [ ok |-> FALSE, err |-> "Count error" ]
        ELSE IF ~r.json.hasCount
          THEN [ ok |-> FALSE, err |-> "Count missing total_lead_count" ]
        ELSE [ ok |-> TRUE, n |-> r.json.total_lead_count ]

\* Bodies of a build response: json.error, results.build_count and
\* results.estimated_count (has* = FALSE: null or undefined).
BuildBody(error, hasBuild, b, hasEstimated, e) ==
    [ error |-> error, hasBuild |-> hasBuild, build_count |-> b,
      hasEstimated |-> hasEstimated, estimated_count |-> e ]

BuildResponses ==
    { [ transport |-> "ok", body |-> BuildBody(FALSE, TRUE, b, FALSE, 0) ] :
        b \in BuildTargets }
    \cup { [ transport |-> "ok", body |-> BuildBody(FALSE, FALSE, 0, TRUE, SmallCount) ],
           [ transport |-> "ok", body |-> BuildBody(FALSE, TRUE, SmallCount, TRUE, LargeCount) ],
           [ transport |-> "ok", body |-> BuildBody(FALSE, FALSE, 0, FALSE, 0) ],
           [ transport |-> "ok", body |-> BuildBody(TRUE, TRUE, SmallCount, FALSE, 0) ] }
    \cup { [ transport |-> t, body |-> BuildBody(FALSE, TRUE, SmallCount, FALSE, 0) ] :
             t \in Transports \ {"ok"} }

\* buildListForZip, from the response on: buildCount, or the error thrown
BuildListForZip(resp) ==
    LET r == HttpPost(resp)
    IN  IF ~r.ok THEN [ ok |-> FALSE, err |-> r.err ]
        ELSE IF r.json.error THEN [ ok |-> FALSE, err |-> "List Builder error" ]
        ELSE IF r.json.hasBuild THEN [ ok |-> TRUE, buildCount |-> r.json.build_count ]
        ELSE IF r.json.hasEstimated
          THEN [ ok |-> TRUE, buildCount |-> r.json.estimated_count ]
        ELSE [ ok |-> FALSE, err |-> "No build_count/estimated_count" ]

\* A delete response; error: the body carries an error marker.  Only the
\* transport is looked at (the body is returned unread).
DeleteResponses ==
    { [ transport |-> t, body |-> [ error |-> FALSE ] ] : t \in Transports }
    \cup { [ transport |-> "ok", body |-> [ error |-> TRUE ] ] }

\* issueSingleDeleteAllExact, from the response on
IssueSingleDeleteAllExact(resp) ==
    IF resp.transport = "ok" THEN [ ok |-> TRUE ] ELSE [ ok |-> FALSE, err |-> "HTTP" ]

-----------------------------------------------------------------------------
(* Characters                                                               *)

Uppers == << "A", "B", "C", "D", "E", "F", "G", "H", "I", "J", "K", "L", "M", "N", "O", "P", "Q", "R", "S", "T", "U", "V", "W", "X", "Y", "Z" >>
Lowers == << "a", "b", "c", "d", "e", "f", "g", "h", "i", "j", "k", "l", "m", "n", "o", "p", "q", "r", "s", "t", "u", "v", "w", "x", "y", "z" >>

\* The one character U+FB01 (the ligature of f and i), written here by a
\* two-letter name: it has no lower-case form of its own and its upper-case
\* form is the two characters "FI"
LigatureFi == "fi"

\* String.prototype.toLowerCase, one character
ToLowerChar(c) ==
    IF \E i \in 1..26 : Uppers[i] = c
      THEN Lowers[CHOOSE i \in 1..26 : Uppers[i] = c]
      ELSE c

\* String.prototype.toUpperCase of a one-character string: a string, of two
\* characters for the ligature
ToUpperChar(c) ==
    IF c = LigatureFi THEN << "F", "I" >>
    ELSE IF \E i \in 1..26 : Lowers[i] = c
      THEN << Uppers[CHOOSE i \in 1..26 : Lowers[i] = c] >>
      ELSE << c >>

ToLowerCase(s) == [ i \in 1..Len(s) |-> ToLowerChar(s[i]) ]

RECURSIVE ToUpperCase(_)
ToUpperCase(s) ==
    IF s = << >> THEN << >> ELSE ToUpperChar(Head(s)) \o ToUpperCase(Tail(s))

\* s.replace(/\D+/g, "")
RECURSIVE DigitsOnly(_)
DigitsOnly(s) ==
    IF s = << >> THEN << >>
    ELSE (IF Head(s) \in Digits THEN << Head(s) >> ELSE << >>) \o DigitsOnly(Tail(s))

\* s.includes(sub)
Includes(s, sub) ==
    \E i \in 1..(Len(s) - Len(sub) + 1) : SubSeq(s, i, i + Len(sub) - 1) = sub

\* s.includes(c) for one character
HasChar(s, c) == \E i \in 1..Len(s) : s[i] = c

\* full.split(/\s+/).filter(Boolean): the maximal runs of non-whitespace
RECURSIVE SplitWords(_, _)
SplitWords(s, word) ==
    IF s = << >> THEN (IF word = << >> THEN << >> ELSE << word >>)
    ELSE IF Head(s) \in Whitespace
      THEN (IF word = << >> THEN << >> ELSE << word >>) \o SplitWords(Tail(s), << >>)
      ELSE SplitWords(Tail(s), Append(word, Head(s)))

\* s.split(",")[0]
RECURSIVE BeforeFirstComma(_)
BeforeFirstComma(s) ==
    IF s = << >> \/ Head(s) = "," THEN << >>
    ELSE << Head(s) >> \o BeforeFirstComma(Tail(s))

\* null / undefined where the code expects a string: no string equals it
Null == << "null" >>

\* A number where the code expects a string: the string methods are missing
NumberValue == << "number" >>

\* (v ?? "")
OrEmpty(v) == IF v = Null THEN << >> ELSE v

Owner == << "o", "w", "n", "e", "r" >>
Homeowner == << "h", "o", "m", "e", "o", "w", "n", "e", "r" >>

-----------------------------------------------------------------------------
(* Homeowner parsing                                                        *)

\* A normalisation that looks for the "+" before it trims
NormalizePhoneUntrimmed(num) ==
    IF num = Null THEN << >>
    ELSE LET s == Trim(num)
         IN  IF s = << >> THEN << >>
             ELSE IF Head(num) = "+" THEN << "+" >> \o DigitsOnly(s)
             ELSE DigitsOnly(s)

\* normalizePhone
NormalizePhone(num) ==
    IF num = Null THEN << >>
    ELSE LET s == Trim(num)
         IN  IF s = << >> THEN << >>
             ELSE IF Head(s) = "+" THEN << "+" >> \o DigitsOnly(s)
             ELSE DigitsOnly(s)

\* A resolution that turns to the full name when either part is missing
ContactFirstLastEither(c) ==
    LET first == Trim(OrEmpty(c.given_name))
        last == Trim(OrEmpty(c.surname))
        full == Trim(OrEmpty(c.full_name))
        parts == SplitWords(full, << >>)
    IN  IF (first = << >> \/ last = << >>) /\ full # << >>
          THEN IF Len(parts) = 1 THEN [ first |-> parts[1], last |-> last ]
               ELSE IF Len(parts) > 1
                 THEN [ first |-> parts[1], last |-> parts[Len(parts)] ]
               ELSE [ first |-> first, last |-> last ]
          ELSE [ first |-> first, last |-> last ]

\* contactFirstLast
ContactFirstLast(c) ==
    LET first == Trim(OrEmpty(c.given_name))
        last == Trim(OrEmpty(c.surname))
        full == Trim(OrEmpty(c.full_name))
        parts == SplitWords(full, << >>)
    IN  IF first = << >> /\ last = << >> /\ full # << >>
          THEN IF Len(parts) = 1 THEN [ first |-> parts[1], last |-> last ]
               ELSE IF Len(parts) > 1
                 THEN [ first |-> parts[1], last |-> parts[Len(parts)] ]
               ELSE [ first |-> first, last |-> last ]
          ELSE [ first |-> first, last |-> last ]

\* capitalizeFirstOnly
CapitalizeFirstOnly(s) ==
    IF s = << >> THEN s
    ELSE LET lower == ToLowerCase(s)
         IN  ToUpperChar(lower[1]) \o Tail(lower)

\* A contact without any field set, and an entry without any field set.
\* Flags are FALSE when absent, strings Null when absent.
EmptyContact ==
    [ given_name |-> Null, surname |-> Null, full_name |-> Null,
      phone_1 |-> Null, phone_1_type |-> Null,
      phone_2 |-> Null, phone_2_type |-> Null,
      phone_3 |-> Null, phone_3_type |-> Null,
      email_address_1 |-> Null, email_address_2 |-> Null, email_address_3 |-> Null,
      is_owner |-> FALSE, is_primary |-> FALSE, primary |-> FALSE,
      homeowner |-> FALSE, owner |-> FALSE,
      role |-> Null, type |-> Null, relationship |-> Null, contact_type |-> Null ]

EmptyEntry ==
    [ hasContact |-> FALSE, contact |-> EmptyContact,
      is_owner |-> FALSE, is_primary |-> FALSE, homeowner |-> FALSE,
      role |-> Null, type |-> Null, relationship |-> Null ]

\* isHomeownerContact
IsHomeownerContact(entry) ==
    LET c == IF entry.hasContact THEN entry.contact ELSE EmptyContact
        anyFlag == \/ c.is_owner \/ c.is_primary \/ c.primary \/ c.homeowner
                   \/ c.owner
                   \/ entry.is_owner \/ entry.is_primary \/ entry.homeowner
        candidates == << c.role, c.type, c.relationship, c.contact_type,
                         entry.role, entry.type, entry.relationship >>
        anyOwnerWord ==
            \E i \in 1..Len(candidates) :
                /\ candidates[i] # Null
                /\ Len(candidates[i]) > 0
                /\ \/ Includes(ToLowerCase(candidates[i]), Owner)
                   \/ Includes(ToLowerCase(candidates[i]), Homeowner)
    IN  anyOwnerWord \/ anyFlag

\* A selection that prefers the last entry that looks like the homeowner's
SelectHomeownerEntryLast(property) ==
    LET list == IF property.phoneNumbersIsArray THEN property.phone_numbers ELSE << >>
    IN  IF Len(list) = 0 THEN 0
        ELSE IF \E i \in 1..Len(list) : IsHomeownerContact(list[i])
          THEN CHOOSE i \in 1..Len(list) :
                 /\ IsHomeownerContact(list[i])
                 /\ \A j \in (i + 1)..Len(list) : ~IsHomeownerContact(list[j])
          ELSE 1

\* selectHomeownerEntry: the index into phone_numbers of the entry picked, 0 for null
SelectHomeownerEntry(property) ==
    LET list == IF property.phoneNumbersIsArray THEN property.phone_numbers ELSE << >>
    IN  IF Len(list) = 0 THEN 0
        ELSE IF \E i \in 1..Len(list) : IsHomeownerContact(list[i])
          THEN CHOOSE i \in 1..Len(list) :
                 /\ IsHomeownerContact(list[i])
                 /\ \A j \in 1..(i - 1) : ~IsHomeownerContact(list[j])
          ELSE 1

\* A loop that takes the first phone as the mobile, whatever its type
IsMobileTypeAny(t) == TRUE

\* t.toUpperCase() === "W"
IsMobileType(t) == ToUpperCase(t) = << "W" >>

\* A loop that keeps a number it has seen before
RECURSIVE ScanPhonesKeepAll(_, _)
ScanPhonesKeepAll(triples, acc) ==
    IF triples = << >> THEN acc
    ELSE LET p == Head(triples)
             n == NormalizePhone(p.num)
             t == Trim(OrEmpty(p.typ))
         IN  IF n = << >>
               THEN ScanPhonesKeepAll(Tail(triples), acc)
               ELSE ScanPhonesKeepAll(Tail(triples),
                      [ seen |-> acc.seen \cup {n},
                        phones |-> Append(acc.phones, [ number |-> n, type |-> t ]),
                        mobile |-> IF acc.mobile = << >> /\ IsMobileType(t)
                                     THEN n ELSE acc.mobile ])

\* The loop over phoneTriples: the state after the slots in `triples`
RECURSIVE ScanPhones(_, _)
ScanPhones(triples, acc) ==
    IF triples = << >> THEN acc
    ELSE LET p == Head(triples)
             n == NormalizePhone(p.num)
             t == Trim(OrEmpty(p.typ))
         IN  IF n = << >> \/ n \in acc.seen
               THEN ScanPhones(Tail(triples), acc)
               ELSE ScanPhones(Tail(triples),
                      [ seen |-> acc.seen \cup {n},
                        phones |-> Append(acc.phones, [ number |-> n, type |-> t ]),
                        mobile |-> IF acc.mobile = << >> /\ IsMobileType(t)
                                     THEN n ELSE acc.mobile ])

\* [e1, e2, e3].map((e) => (e ?? "").toString().trim()).filter((e) => e.length > 0)
RECURSIVE CleanEmails(_)
CleanEmails(es) ==
    IF es = << >> THEN << >>
    ELSE LET e == Trim(OrEmpty(Head(es)))
         IN  (IF Len(e) > 0 THEN << e >> ELSE << >>) \o CleanEmails(Tail(es))

\* A loop body that takes the contact's first phone for the mobile, whatever
\* its type
ParseEntryFirstPhone(property, e) ==
    LET propertyAddress == OrEmpty(property.property_address_full)
        addy_two == Trim(BeforeFirstComma(propertyAddress))
    IN  IF ~property.phone_numbers[e].hasContact THEN << >>
        ELSE LET c == property.phone_numbers[e].contact
                 scan == ScanPhones(
                     << [ num |-> c.phone_1, typ |-> c.phone_1_type ],
                        [ num |-> c.phone_2, typ |-> c.phone_2_type ],
                        [ num |-> c.phone_3, typ |-> c.phone_3_type ] >>,
                     [ seen |-> {}, phones |-> << >>, mobile |-> << >> ])
                 emails == CleanEmails(<< c.email_address_1, c.email_address_2,
                                          c.email_address_3 >>)
                 name == ContactFirstLast(c)
             IN  IF scan.phones = << >> THEN << >>
                 ELSE << [ firstName |-> CapitalizeFirstOnly(name.first),
                           lastName |-> name.last,
                           propertyAddress |-> propertyAddress,
                           addy_two |-> addy_two,
                           mobile |-> scan.phones[1].number,
                           phones |-> scan.phones,
                           emails |-> emails ] >>

\* The body of parseHomeownersFromPage's loop from `const c = entry.contact`
\* on, for the entry of index e: the rows it pushes
ParseEntry(property, e) ==
    LET propertyAddress == OrEmpty(property.property_address_full)
        addy_two == Trim(BeforeFirstComma(propertyAddress))
    IN  IF ~property.phone_numbers[e].hasContact THEN << >>
        ELSE LET c == property.phone_numbers[e].contact
                 scan == ScanPhones(
                     << [ num |-> c.phone_1, typ |-> c.phone_1_type ],
                        [ num |-> c.phone_2, typ |-> c.phone_2_type ],
                        [ num |-> c.phone_3, typ |-> c.phone_3_type ] >>,
                     [ seen |-> {}, phones |-> << >>, mobile |-> << >> ])
                 emails == CleanEmails(<< c.email_address_1, c.email_address_2,
                                          c.email_address_3 >>)
                 name == ContactFirstLast(c)
             IN  IF scan.mobile = << >> THEN << >>
                 ELSE << [ firstName |-> CapitalizeFirstOnly(name.first),
                           lastName |-> name.last,
                           propertyAddress |-> propertyAddress,
                           addy_two |-> addy_two,
                           mobile |-> scan.mobile,
                           phones |-> scan.phones,
                           emails |-> emails ] >>

\* A loop body that makes a row of every member of the household
RECURSIVE ParseMembers(_, _)
ParseMembers(property, e) ==
    IF ~property.phoneNumbersIsArray \/ e > Len(property.phone_numbers) THEN << >>
    ELSE ParseEntry(property, e) \o ParseMembers(property, e + 1)

ParsePropertyAll(property) == ParseMembers(property, 1)

\* A loop body that turns to the household's other members when the selected
\* entry gives no row
ParsePropertyFallback(property) ==
    LET e == SelectHomeownerEntry(property)
    IN  IF e = 0 THEN << >>
        ELSE IF ParseEntry(property, e) # << >> THEN ParseEntry(property, e)
        ELSE IF ParseMembers(property, 1) # << >> THEN << ParseMembers(property, 1)[1] >>
        ELSE << >>

\* The body of parseHomeownersFromPage's loop for one property: the rows it pushes
ParseProperty(property) ==
    LET e == SelectHomeownerEntry(property)
    IN  IF e = 0 THEN << >> ELSE ParseEntry(property, e)

RECURSIVE ParseProperties(_)
ParseProperties(props) ==
    IF props = << >> THEN << >>
    ELSE ParseProperty(Head(props)) \o ParseProperties(Tail(props))

\* A parse that keeps the rows of the page's last property only
ParseHomeownersFromPageLast(rawPage) ==
    IF ~rawPage.propertiesIsArray \/ rawPage.properties = << >> THEN << >>
    ELSE ParseProperty(rawPage.properties[Len(rawPage.properties)])

\* parseHomeownersFromPage throws: propertyAddress.split is not a function
\* when a property's property_address_full is a number other than 0
ParseThrows(rawPage) ==
    /\ rawPage.propertiesIsArray
    /\ \E i \in DOMAIN rawPage.properties :
         rawPage.properties[i].property_address_full = NumberValue

\* parseHomeownersFromPage; propertiesIsArray: Array.isArray(rawPage?.results?.properties)
ParseHomeownersFromPage(rawPage) ==
    IF ~rawPage.propertiesIsArray THEN << >>
    ELSE ParseProperties(rawPage.properties)

-----------------------------------------------------------------------------
(* CSV                                                                      *)

\* fields.join(sep)
RECURSIVE Join(_, _)
Join(fields, sep) ==
    IF fields = << >> THEN << >>
    ELSE IF Len(fields) = 1 THEN Head(fields)
    ELSE Head(fields) \o sep \o Join(Tail(fields), sep)

\* s.replace(/"/g, '""')
RECURSIVE DoubleQuotes(_)
DoubleQuotes(s) ==
    IF s = << >> THEN << >>
    ELSE (IF Head(s) = "\"" THEN << "\"", "\"" >> ELSE << Head(s) >>)
         \o DoubleQuotes(Tail(s))

\* An escaping that wraps the field and leaves its quotes single
EscapeCsvValueWrapped(value) ==
    LET s == OrEmpty(value)
    IN  IF HasChar(s, ",") \/ HasChar(s, "\"") \/ HasChar(s, "\n")
          THEN << "\"" >> \o s \o << "\"" >>
          ELSE s

\* escapeCsvValue
EscapeCsvValue(value) ==
    LET s == OrEmpty(value)
    IN  IF HasChar(s, ",") \/ HasChar(s, "\"") \/ HasChar(s, "\n")
          THEN << "\"" >> \o DoubleQuotes(s) \o << "\"" >>
          ELSE s

FirstNameH == << "f", "i", "r", "s", "t", "N", "a", "m", "e" >>
LastNameH == << "l", "a", "s", "t", "N", "a", "m", "e" >>
PropertyAddressH == << "p", "r", "o", "p", "e", "r", "t", "y", "A", "d", "d", "r", "e", "s", "s" >>
AddyTwoH == << "a", "d", "d", "y", "_", "t", "w", "o" >>
MobileH == << "m", "o", "b", "i", "l", "e" >>
PhoneH == << "p", "h", "o", "n", "e" >>
TypeSuffixH == << "_", "t", "y", "p", "e" >>
EmailH == << "e", "m", "a", "i", "l" >>

\* `${i}` for the column numbers the headers use
DigitOf(i) == << << "0", "1", "2", "3", "4", "5", "6", "7", "8", "9" >>[i + 1] >>

\* The header fields of generateCsvHeaders, before the join
CsvHeaderFields(maxPhones, maxEmails) ==
    LET base == << FirstNameH, LastNameH, PropertyAddressH, AddyTwoH, MobileH >>
        phoneHeaders == [ k \in 1..(2 * maxPhones) |->
                            IF k % 2 = 1 THEN PhoneH \o DigitOf((k + 1) \div 2)
                            ELSE PhoneH \o DigitOf(k \div 2) \o TypeSuffixH ]
        emailHeaders == [ k \in 1..maxEmails |-> EmailH \o DigitOf(k) ]
    IN  base \o phoneHeaders \o emailHeaders

\* generateCsvHeaders
GenerateCsvHeaders(maxPhones, maxEmails) ==
    Join(CsvHeaderFields(maxPhones, maxEmails), << "," >>)

\* The fields of convertRowToCsv, before escaping and the join
CsvRowFields(row, maxPhones, maxEmails) ==
    LET fixed == << row.firstName, row.lastName, row.propertyAddress, row.addy_two,
                    row.mobile >>
        phoneFields == [ k \in 1..(2 * maxPhones) |->
                           LET i == (k + 1) \div 2
                           IN  IF i > Len(row.phones) THEN << >>
                               ELSE IF k % 2 = 1 THEN row.phones[i].number
                               ELSE row.phones[i].type ]
        emailFields == [ k \in 1..maxEmails |->
                           IF k > Len(row.emails) THEN << >> ELSE row.emails[k] ]
    IN  fixed \o phoneFields \o emailFields

\* convertRowToCsv
ConvertRowToCsv(row, maxPhones, maxEmails) ==
    LET fields == CsvRowFields(row, maxPhones, maxEmails)
    IN  Join([ k \in 1..Len(fields) |-> EscapeCsvValue(fields[k]) ], << "," >>)

\* A key that takes the mobile as it is written
DedupKeyRaw(r) ==
    ToLowerCase(Trim(r.propertyAddress)) \o << "|" >> \o r.mobile

\* The de-duplication key of a row
DedupKey(r) ==
    ToLowerCase(Trim(r.propertyAddress)) \o << "|" >> \o DigitsOnly(r.mobile)

\* The de-duplication loop over allRows
RECURSIVE DedupFrom(_, _)
DedupFrom(rows, seen) ==
    IF rows = << >> THEN << >>
    ELSE IF DedupKey(Head(rows)) \in seen THEN DedupFrom(Tail(rows), seen)
    ELSE << Head(rows) >> \o DedupFrom(Tail(rows), seen \cup {DedupKey(Head(rows))})

\* A loop that skips a row only when it has the key of the row just before it
DedupAdjacent(allRows) ==
    LET kept == SelectSeq(
                  [ i \in 1..Len(allRows) |->
                      [ row |-> allRows[i],
                        keep |-> i = 1 \/ DedupKey(allRows[i]) # DedupKey(allRows[i - 1]) ] ],
                  LAMBDA e : e.keep)
    IN  [ k \in 1..Len(kept) |-> kept[k].row ]

Dedup(allRows) == DedupFrom(allRows, {})

\* The dynamic widths computed from the deduped rows
RECURSIVE MaxOver(_, _)
MaxOver(rows, field) ==
    IF rows = << >> THEN 0
    ELSE LET here == Len(Head(rows)[field])
             rest == MaxOver(Tail(rows), field)
         IN  IF here > rest THEN here ELSE rest

\* results.flat(): the written slots in index order, holes skipped
RECURSIVE Flat(_, _, _)
Flat(res, from, n) ==
    IF from >= n THEN << >>
    ELSE (IF from \in DOMAIN res THEN res[from] ELSE << >>) \o Flat(res, from + 1, n)

RECURSIVE CsvLines(_, _, _)
CsvLines(rows, maxPhones, maxEmails) ==
    IF rows = << >> THEN << >>
    ELSE ConvertRowToCsv(Head(rows), maxPhones, maxEmails) \o << "\n" >>
         \o CsvLines(Tail(rows), maxPhones, maxEmails)

\* An export that computes the widths before it drops the duplicates
BuildCsvWide(res, n) ==
    LET allRows == Flat(res, 0, n)
        deduped == Dedup(allRows)
        maxPhones == MaxOver(allRows, "phones")
        maxEmails == MaxOver(allRows, "emails")
    IN  [ csv |-> GenerateCsvHeaders(maxPhones, maxEmails) \o << "\n" >>
                  \o CsvLines(deduped, maxPhones, maxEmails),
          rows |-> Len(deduped), maxPhones |-> maxPhones, maxEmails |-> maxEmails ]

\* An encoding that writes the header only when a row follows it
BuildCsvBare(res, n) ==
    LET allRows == Flat(res, 0, n)
        deduped == Dedup(allRows)
        maxPhones == MaxOver(deduped, "phones")
        maxEmails == MaxOver(deduped, "emails")
    IN  [ csv |-> IF deduped = << >> THEN << >>
                  ELSE GenerateCsvHeaders(maxPhones, maxEmails) \o << "\n" >>
                       \o CsvLines(deduped, maxPhones, maxEmails),
          rows |-> Len(deduped), maxPhones |-> maxPhones, maxEmails |-> maxEmails ]

\* exportHomeownersCsvString after Promise.all: flatten, de-duplicate, encode
BuildCsv(res, n) ==
    LET allRows == Flat(res, 0, n)
        deduped == Dedup(allRows)
        maxPhones == MaxOver(deduped, "phones")
        maxEmails == MaxOver(deduped, "emails")
    IN  [ csv |-> GenerateCsvHeaders(maxPhones, maxEmails) \o << "\n" >>
                  \o CsvLines(deduped, maxPhones, maxEmails),
          rows |-> Len(deduped), maxPhones |-> maxPhones, maxEmails |-> maxEmails ]

\* The CSV returned when total <= 0
EmptyCsv == << "f", "i", "r", "s", "t", "N", "a", "m", "e", ",", "l", "a", "s", "t", "N", "a", "m", "e", ",", "p", "r", "o", "p", "e", "r", "t", "y", "A", "d", "d", "r", "e", "s", "s", ",", "a", "d", "d", "y", "_", "t", "w", "o", ",", "m", "o", "b", "i", "l", "e" >> \o << "\n" >>

-----------------------------------------------------------------------------
(* Base64                                                                   *)

\* The printable ASCII characters, code 32 first (the grave accent, code 96,
\* cannot be written in a string here and is held by a placeholder)
Ascii ==
    << " ", "!", "\"", "#", "$", "%", "&", "'", "(", ")", "*", "+", ",", "-", ".", "/",
       "0", "1", "2", "3", "4", "5", "6", "7", "8", "9", ":", ";", "<", "=", ">", "?",
       "@", "A", "B", "C", "D", "E", "F", "G", "H", "I", "J", "K", "L", "M", "N", "O",
       "P", "Q", "R", "S", "T", "U", "V", "W", "X", "Y", "Z", "[", "\\", "]", "^", "_",
       "grave", "a", "b", "c", "d", "e", "f", "g", "h", "i", "j", "k", "l", "m", "n", "o",
       "p", "q", "r", "s", "t", "u", "v", "w", "x", "y", "z", "{", "|", "}", "~" >>

Base64Alphabet ==
    << "A", "B", "C", "D", "E", "F", "G", "H", "I", "J", "K", "L", "M", "N", "O", "P",
       "Q", "R", "S", "T", "U", "V", "W", "X", "Y", "Z", "a", "b", "c", "d", "e", "f",
       "g", "h", "i", "j", "k", "l", "m", "n", "o", "p", "q", "r", "s", "t", "u", "v",
       "w", "x", "y", "z", "0", "1", "2", "3", "4", "5", "6", "7", "8", "9", "+", "/" >>

\* The UTF-8 byte of an ASCII character
CharCode(c) ==
    IF c = "\n" THEN 10
    ELSE IF c = "\t" THEN 9
    ELSE 31 + (CHOOSE i \in 1..Len(Ascii) : Ascii[i] = c)

Sextet(n) == Base64Alphabet[n + 1]

\* The k-th character of the encoding of the bytes b: each group of three
\* bytes gives four characters, a last group of one or two bytes is padded
Base64Char(b, k) ==
    LET i == 3 * ((k - 1) \div 4) + 1
        j == (k - 1) % 4
        b2 == IF i + 1 <= Len(b) THEN b[i + 1] ELSE 0
        b3 == IF i + 2 <= Len(b) THEN b[i + 2] ELSE 0
    IN  IF j = 0 THEN Sextet(b[i] \div 4)
        ELSE IF j = 1 THEN Sextet((b[i] % 4) * 16 + b2 \div 16)
        ELSE IF j = 2
          THEN (IF i + 1 <= Len(b) THEN Sextet((b2 % 16) * 4 + b3 \div 64) ELSE "=")
        ELSE (IF i + 2 <= Len(b) THEN Sextet(b3 % 64) ELSE "=")

Base64Bytes(b) == [ k \in 1..(4 * ((Len(b) + 2) \div 3)) |-> Base64Char(b, k) ]

\* Buffer.from(csv, "utf8").toString("base64")
Base64(csv) == Base64Bytes([ i \in 1..Len(csv) |-> CharCode(csv[i]) ])

-----------------------------------------------------------------------------
(* Pages the upstream may return                                            *)

Addr1 == << "1", " ", "A", " ", "S", "t", ",", " ", "L", "A" >>
Addr1Upper == << " ", "1", " ", "a", " ", "s", "T", ",", " ", "L", "A" >>
Addr2 == << "2", " ", "B", " ", "R", "d" >>
Phone1 == << "+", "1", " ", "(", "5", "5", "5", ")", " ", "0", "1" >>
Phone1Plain == << "1", "5", "5", "5", ".", "0", "1" >>
Phone2 == << "5", "5", "5", "-", "0", "2" >>
Email1 == << "a", "@", "b", ".", "c" >>
NameJohn == << "J", "O", "H", "N" >>
NameJoAnn == << "j", "o", "-", "A", "N", "N" >>
NameDoe == << "D", "o", "e" >>
FullName == << "m", "a", "r", "y", " ", "q", " ", "P", "u", "b", "l", "i", "c" >>
TypeW == << "W" >>
TypeWLower == << "w" >>
TypeL == << "L" >>
RoleOwner == << "C", "o", "-", "O", "w", "n", "e", "r" >>

EntryOf(c) == [ EmptyEntry EXCEPT !.hasContact = TRUE, !.contact = c ]

Property(address, entries) ==
    [ property_address_full |-> address, phoneNumbersIsArray |-> TRUE,
      phone_numbers |-> entries ]

\* A property whose only contact has a "W" phone
PropMobile ==
    Property(Addr1, << EntryOf([ EmptyContact EXCEPT
        !.given_name = NameJohn, !.surname = NameDoe,
        !.phone_1 = Phone1, !.phone_1_type = TypeW ]) >>)

\* A property whose only contact has no "W" phone
PropNoMobile ==
    Property(Addr2, << EntryOf([ EmptyContact EXCEPT
        !.given_name = NameJoAnn, !.phone_1 = Phone2, !.phone_1_type = TypeL ]) >>)

\* The same address and mobile as PropMobile up to case, spaces and the "+";
\* the owner is the second entry, who has two phones and an e-mail
PropDuplicate ==
    Property(Addr1Upper,
      << EntryOf([ EmptyContact EXCEPT
             !.given_name = NameDoe, !.phone_1 = Phone2, !.phone_1_type = TypeW ]),
         EntryOf([ EmptyContact EXCEPT
             !.full_name = FullName, !.role = RoleOwner,
             !.phone_1 = Phone2, !.phone_1_type = TypeL,
             !.phone_2 = Phone1Plain, !.phone_2_type = TypeWLower,
             !.email_address_1 = Email1 ]) >>)

\* A property with no contact entries
PropNoEntries == [ property_address_full |-> Null, phoneNumbersIsArray |-> FALSE,
                   phone_numbers |-> << >> ]

\* A property at another address whose only contact has a "W" phone
PropThird ==
    Property(Addr2, << EntryOf([ EmptyContact EXCEPT
        !.surname = NameDoe, !.phone_1 = Phone2, !.phone_1_type = TypeW ]) >>)

\* A property whose address is a number
PropMalformed == [ PropMobile EXCEPT !.property_address_full = NumberValue ]

\* rawPage: propertiesIsArray is Array.isArray(rawPage?.results?.properties),
\* error is whether the body carries an error marker
RawPage(props) == [ error |-> FALSE, propertiesIsArray |-> TRUE, properties |-> props ]
ErrorPage == [ error |-> TRUE, propertiesIsArray |-> FALSE, properties |-> << >> ]

\* The properties the upstream lists from offset `begin` on when the working
\* set holds `count` leads.  A set of SmallCount leads is one page of two
\* properties; a larger one has a first page with a duplicated address, a
\* second page that repeats an address of the first, and other pages after it.
LeadsAt(count, begin) ==
    IF begin >= count THEN << >>
    ELSE IF count = SmallCount THEN << PropMobile, PropNoMobile >>
    ELSE IF begin = 0 THEN << PropDuplicate, PropNoEntries, PropMobile, PropNoMobile >>
    ELSE IF begin = LEADS_PER_PAGE THEN << PropMobile >>
    ELSE << PropThird >>

\* The responses to a page fetch from `begin` on: the page, the page with a
\* malformed property in it, a body with an error marker, or a transport
\* failure
PageResponses(count, begin) ==
    { [ transport |-> "ok", body |-> RawPage(LeadsAt(count, begin)) ],
      [ transport |-> "ok", body |-> RawPage(<< PropMalformed >> \o LeadsAt(count, begin)) ],
      [ transport |-> "ok", body |-> ErrorPage ] }
    \cup { [ transport |-> t, body |-> RawPage(<< >>) ] : t \in Transports \ {"ok"} }

-----------------------------------------------------------------------------
(* The run                                                                  *)

NoZip == << >>
Finished == -1
NoLabel == [ kind |-> "none", zip |-> NoZip ]

\* line(controller, `Leads already detected: ${current}`) and the other lines
\* that print one number
CountLine(text, zip, n) == [ json |-> FALSE, text |-> text, zip |-> zip, count |-> n ]

\* line(controller, `[${zip}] Exporting ${total} leads across ${pages} page(s) with
\* concurrency=${Math.min(MAX_CONCURRENCY, pages)} …`)
ExportingLine(zip, total, n, k) ==
    [ json |-> FALSE, text |-> "Exporting", zip |-> zip, total |-> total,
      pages |-> n, concurrency |-> k ]

\* line(controller, `[${zip}] CSV built with ${deduped.length} homeowner row(s) after
\* de-duplication (phone pairs: ${maxPhones}, email cols: ${maxEmails}).`)
CsvBuiltLine(zip, b) ==
    [ json |-> FALSE, text |-> "CSV built", zip |-> zip, rows |-> b.rows,
      maxPhones |-> b.maxPhones, maxEmails |-> b.maxEmails ]

Init ==
    /\ input \in Requests
    /\ response = [ status |-> 0, body |-> "none" ]
    /\ pc = "request"
    /\ token = << >>
    /\ zips = << >>
    /\ zi = 0
    /\ current = 0
    /\ buildCount = 0
    /\ pollLabel = NoLabel
    /\ pollTarget = 0
    /\ pollTimeout = 0
    /\ elapsed = 0
    /\ req = NoReq
    /\ reply = NoReply
    /\ pages = 0
    /\ idx = 0
    /\ results = << >>
    /\ workers = << >>
    /\ maxConcurrency = MAX_CONCURRENCY
    /\ stream = << >>
    /\ closed = FALSE
    /\ closeCount = 0
    /\ calls = << >>
    /\ leads \in InitialLeads
    /\ settling = leads
    /\ anomalies = 0
    /\ claims = << >>
    /\ slotWrites = << >>
    /\ called = "none"
    /\ given = << >>
    /\ returned = << >>

requestVars == << input, response, token, zips, maxConcurrency >>
pollVars == << pollLabel, pollTarget, pollTimeout, elapsed >>
exportVars == << pages, idx, results, workers, claims, slotWrites >>
closeVars == << closed, closeCount >>
upstreamVars == << leads, settling, anomalies >>
callVars == << called, given, returned >>

\* The counts a count read may report: what the working set holds, what it is
\* being brought to, or (out of the ordinary) 1e999
CountAnswers ==
    {leads, settling} \cup (IF anomalies < MaxAnomalies THEN {Infinity} ELSE {})

\* The upstream's side of a count read: by the time it answers, the working set
\* either still holds `leads` or has reached `settling`, and the answer reports
\* what it holds then
CountRead(resp) ==
    LET r == GetTotalLeadCount(resp)
    IN  /\ settling' = settling
        /\ leads' = IF r.ok /\ r.n \in {leads, settling} THEN r.n ELSE leads
        /\ anomalies' = IF r.ok /\ r.n \notin {leads, settling}
                          THEN anomalies + 1 ELSE anomalies

\* The upstream's side of a build or delete that brings the working set to
\* `target`: nothing if it was not accepted; else the set is there by the time
\* of the next count read, or (out of the ordinary) it gets there later or never
Settle(accepted, target) ==
    IF ~accepted THEN UNCHANGED upstreamVars
    ELSE /\ settling' = target
         /\ \/ /\ leads' = target
               /\ anomalies' = anomalies
            \/ /\ anomalies < MaxAnomalies
               /\ leads # target
               /\ leads' = leads
               /\ anomalies' = anomalies + 1

\* A delete the upstream answers with an error marker (out of the ordinary) is
\* one it has not carried out
DeleteRefused(resp) == resp.transport = "ok" /\ resp.body.error

DeleteAnswers ==
    { resp \in DeleteResponses : ~DeleteRefused(resp) \/ anomalies < MaxAnomalies }

\* The upstream's side of a delete
DeleteSettles(resp) ==
    IF DeleteRefused(resp)
      THEN /\ anomalies' = anomalies + 1
           /\ UNCHANGED << leads, settling >>
      ELSE Settle(resp.transport = "ok", 0)

\* A page response that is out of the ordinary: a failure, an error marker or
\* a malformed property
PageAnomaly(resp) ==
    resp.transport # "ok" \/ resp.body.error \/ ParseThrows(resp.body)

\* The responses to a page fetch from `begin` on: the page of the working set,
\* or (out of the ordinary) a failure or an error marker
PageAnswers(begin) ==
    { resp \in PageResponses(leads, begin) :
        ~PageAnomaly(resp) \/ anomalies < MaxAnomalies }

\* line(...) / jsonLine(...), in order
Emit(lines) == stream' = stream \o lines

\* Issue the upstream request r and suspend at the await `at`
Await(r, at) ==
    /\ req' = r
    /\ calls' = Append(calls, r)
    /\ pc' = at

\* A catch block inside the for-loop's body: the ERROR line is written and the
\* loop goes on with the next region, if there is one
FailAndGoOn(lines, err) ==
    /\ Emit(lines \o << ErrorLine(err) >>)
    /\ IF zi < Len(zips)
         THEN /\ zi' = zi + 1
              /\ Await(BuildReq(token, zips[zi + 1]), "build")
              /\ UNCHANGED << closed, closeCount >>
         ELSE /\ zi' = zi
              /\ closed' = TRUE
              /\ closeCount' = closeCount + 1
              /\ pc' = "failed"
              /\ req' = NoReq
              /\ calls' = calls

\* A catch block that writes the ERROR line and leaves the stream open
FailNoClose(lines, err) ==
    /\ Emit(lines \o << ErrorLine(err) >>)
    /\ UNCHANGED << closed, closeCount >>
    /\ pc' = "failed"
    /\ req' = NoReq
    /\ calls' = calls
    /\ zi' = zi

\* The catch block of start(): the ERROR line, then controller.close().
\* `lines` are the lines written before the throw.
Fail(lines, err) ==
    /\ Emit(lines \o << ErrorLine(err) >>)
    /\ closed' = TRUE
    /\ closeCount' = closeCount + 1
    /\ pc' = "failed"
    /\ req' = NoReq
    /\ calls' = calls
    /\ zi' = zi

\* An end of the try block that closes the stream without the Done line
FinishSilent(lines) ==
    /\ Emit(lines)
    /\ closed' = TRUE
    /\ closeCount' = closeCount + 1
    /\ pc' = "done"
    /\ req' = NoReq
    /\ calls' = calls

\* The end of the try block: the Done line, then controller.close()
Finish(lines) ==
    /\ Emit(lines \o << DoneLine >>)
    /\ closed' = TRUE
    /\ closeCount' = closeCount + 1
    /\ pc' = "done"
    /\ req' = NoReq
    /\ calls' = calls

\* A Phase 0 that deletes whatever the count
PreDeleteAlways(n) == TRUE

\* A Phase 0 that never deletes
PreDeleteNever(n) == FALSE

\* if (current > 0)
PreDeleteNeeded(n) == n > 0

\* The head of the for-loop's body for zips[i]: the phase event, the Building
\* line and the build call
StartRegion(lines, i) ==
    /\ zi' = i
    /\ Emit(lines \o << PhaseEvent("ZIP", zips[i]), Plain("Building list", zips[i]) >>)
    /\ Await(BuildReq(token, zips[i]), "build")

\* The entry of pollUntilCountEquals: start = Date.now(), then the first count read
StartPoll(label, target, timeoutMs) ==
    /\ pollLabel' = label
    /\ pollTarget' = target
    /\ pollTimeout' = timeoutMs
    /\ elapsed' = 0
    /\ Await(CountReq(token), "poll_read")

\* A poll that gives up as soon as the budget is reached
PollStepAtBudget(n, target, now, timeoutMs) ==
    IF n = target THEN "converged"
    ELSE IF now >= timeoutMs THEN "timedout"
    ELSE "sleep"

\* A poll that takes its first count read for convergence
PollStepEager(n, target, now, timeoutMs) == "converged"

\* A poll that looks at the deadline before it looks at the count
PollStepDeadlineFirst(n, target, now, timeoutMs) ==
    IF now > timeoutMs THEN "timedout"
    ELSE IF n = target THEN "converged"
    ELSE "sleep"

\* One pass of pollUntilCountEquals after the count n was read at time `now`
\* after start
PollStep(n, target, now, timeoutMs) ==
    IF n = target THEN "converged"
    ELSE IF now > timeoutMs THEN "timedout"
    ELSE "sleep"

\* What the k-th count read of a poll meets when the upstream follows a
\* script: the script's k-th answer, and its last answer from then on
ReadAt(script, k) == script[Min(k, Len(script))]

\* pollUntilCountEquals against a scripted upstream, from its k-th count read
\* on, `now` being Date.now() - start when the read is issued: what it returns
\* or throws, and the reads and sleeps it has made by then
RECURSIVE PollFrom(_, _, _, _, _)
PollFrom(script, target, timeoutMs, k, now) ==
    LET answer == ReadAt(script, k)
        after == now + answer.latency
    IN  IF ~answer.ok
          THEN [ result |-> "threw", reads |-> k, sleeps |-> k - 1, elapsed |-> after ]
        ELSE IF PollStep(answer.n, target, after, timeoutMs) = "converged"
          THEN [ result |-> "true", reads |-> k, sleeps |-> k - 1, elapsed |-> after ]
        ELSE IF PollStep(answer.n, target, after, timeoutMs) = "timedout"
          THEN [ result |-> "false", reads |-> k, sleeps |-> k - 1, elapsed |-> after ]
        ELSE PollFrom(script, target, timeoutMs, k + 1, after + POLL_INTERVAL_MS)

\* A poll that sleeps before its first count read
PollUntilCountEqualsSleepFirst(script, target, timeoutMs) ==
    PollFrom(script, target, timeoutMs, 1, POLL_INTERVAL_MS)

\* pollUntilCountEquals
PollUntilCountEquals(script, target, timeoutMs) ==
    PollFrom(script, target, timeoutMs, 1, 0)

\* POST, with `in` the body req.json() gave, up to the first await of start():
\* the checks, then the stream's first two lines and the first count read
PostWith(in) ==
    /\ pc = "request"
    /\ LET v == Validate(in)
       IN  IF v # "ok"
             THEN /\ response' = [ status |-> 400, body |-> v ]
                  /\ pc' = "rejected"
                  /\ UNCHANGED << input, token, zips, maxConcurrency, zi, current,
                                  buildCount, pollVars, req, exportVars, stream,
                                  closeVars, calls, upstreamVars >>
             ELSE /\ response' = [ status |-> 200, body |-> "stream" ]
                  /\ token' = Trim(in.token)
                  /\ zips' = FilterZips(in.zips)
                  /\ Emit(<< PhaseEvent("Starting run", NoZip),
                             Plain("Phase 0 - Detecting existing leads", NoZip) >>)
                  /\ Await(CountReq(Trim(in.token)), "init_count")
                  /\ UNCHANGED << input, maxConcurrency, zi, current, buildCount,
                                  pollVars, exportVars, closeVars, upstreamVars >>
    /\ UNCHANGED callVars
    /\ reply' = NoReply

POST == PostWith(input)

\* let current = await getTotalLeadCount(token), then Phase 0's branch
InitCountReturns ==
    /\ pc = "init_count"
    /\ \E resp \in CountResponses(CountAnswers) :
         LET r == GetTotalLeadCount(resp)
         IN  /\ reply' = resp
             /\ CountRead(resp)
             /\ IF ~r.ok
               THEN /\ Fail(<< >>, Err(r.err, NoZip))
                    /\ UNCHANGED current
               ELSE /\ current' = r.n
                    /\ IF PreDeleteNeeded(r.n)
                         THEN /\ Emit(<< CountLine("Leads already detected", NoZip, r.n),
                                         Plain("Deleting existing leads", NoZip) >>)
                              /\ Await(DeleteReq(token, r.n), "init_delete")
                              /\ UNCHANGED << zi, closeVars >>
                         ELSE /\ StartRegion(
                                   << CountLine("Leads already detected", NoZip, r.n),
                                      Plain("No existing leads, nothing to delete", NoZip) >>,
                                   1)
                              /\ UNCHANGED closeVars
    /\ UNCHANGED << requestVars, buildCount, pollVars, exportVars >>
    /\ UNCHANGED callVars

\* await issueSingleDeleteAllExact(token, current) of Phase 0, then the poll's entry
InitDeleteReturns ==
    /\ pc = "init_delete"
    /\ \E resp \in DeleteAnswers :
         LET r == IssueSingleDeleteAllExact(resp)
         IN  /\ reply' = resp
             /\ DeleteSettles(resp)
             /\ IF ~r.ok
               THEN /\ Fail(<< >>, Err(r.err, NoZip))
                    /\ UNCHANGED pollVars
               ELSE /\ StartPoll([ kind |-> "delete", zip |-> InitTag ], 0,
                                 POLL_DELETE_TIMEOUT_MS)
                    /\ UNCHANGED << stream, closeVars >>
    /\ UNCHANGED << requestVars, zi, current, buildCount, exportVars >>
    /\ UNCHANGED callVars

\* const { buildCount } = await buildListForZip(token, zip), then the poll's entry
BuildReturns ==
    /\ pc = "build"
    /\ \E resp \in BuildResponses :
         LET r == BuildListForZip(resp)
             zip == zips[zi]
         IN  /\ reply' = resp
             /\ Settle(r.ok, IF r.ok THEN r.buildCount ELSE settling)
             /\ IF ~r.ok
               THEN /\ Fail(<< >>, Err(r.err, IF r.err = "HTTP" THEN NoZip ELSE zip))
                    /\ UNCHANGED << buildCount, pollVars >>
               ELSE /\ buildCount' = r.buildCount
                    /\ Emit(<< CountLine("Build count (expected)", zip, r.buildCount),
                               CountLine("Polling count until it equals", zip,
                                         r.buildCount) >>)
                    /\ StartPoll([ kind |-> "build", zip |-> zip ], r.buildCount,
                                 POLL_BUILD_TIMEOUT_MS)
                    /\ UNCHANGED closeVars
    /\ UNCHANGED << requestVars, zi, current, exportVars >>
    /\ UNCHANGED callVars

\* What start() does once pollUntilCountEquals returned true
AfterConverged(lines) ==
    IF pollLabel.kind = "delete" /\ pollLabel.zip = InitTag
      THEN /\ StartRegion(lines \o << Plain("Initial delete complete (count=0)", NoZip) >>,
                          1)
           /\ UNCHANGED closeVars
    ELSE IF pollLabel.kind = "build"
      THEN /\ Emit(lines \o << Plain("Build complete", zips[zi]),
                               Plain("Starting export (homeowner-only)", zips[zi]) >>)
           /\ Await(CountReq(token), "export_count")
           /\ UNCHANGED << zi, closeVars >>
    ELSE LET done == lines \o << Plain("Cleanup delete complete", zips[zi]),
                                 Plain("Finished", zips[zi]) >>
         IN  IF zi < Len(zips)
               THEN /\ StartRegion(done, zi + 1)
                    /\ UNCHANGED closeVars
               ELSE /\ Finish(done)
                    /\ UNCHANGED zi

\* Timeout errors that name no region
TimeoutErrorAnonymous ==
    IF pollLabel.kind = "delete" /\ pollLabel.zip = InitTag
      THEN Err("Timed out waiting for initial delete to finish", NoZip)
    ELSE IF pollLabel.kind = "build"
      THEN Err("Timed out waiting for build", NoZip)
    ELSE Err("Timed out waiting for delete to finish", NoZip)

\* The error start() throws once pollUntilCountEquals returned false
TimeoutError ==
    IF pollLabel.kind = "delete" /\ pollLabel.zip = InitTag
      THEN Err("Timed out waiting for initial delete to finish", NoZip)
    ELSE IF pollLabel.kind = "build"
      THEN Err("Timed out waiting for build", zips[zi])
    ELSE Err("Timed out waiting for delete to finish", zips[zi])

\* const n = await getTotalLeadCount(token) inside pollUntilCountEquals, the
\* progress line and the two checks; a count error propagates to start()'s catch
PollCountReturns ==
    /\ pc = "poll_read"
    /\ \E resp \in CountResponses(CountAnswers), latency \in Latency :
         LET r == GetTotalLeadCount(resp)
             now == elapsed + latency
         IN  /\ reply' = resp
             /\ elapsed' = now
             /\ CountRead(resp)
             /\ IF ~r.ok
                  THEN Fail(<< >>, Err(r.err, NoZip))
                  ELSE LET step == PollStep(r.n, pollTarget, now, pollTimeout)
                       IN  /\ Emit(<< PollLine(pollLabel, r.n, pollTarget) >>)
                           /\ pc' = IF step = "converged" THEN "poll_converged"
                                    ELSE IF step = "timedout" THEN "poll_timedout"
                                    ELSE "poll_sleep"
                           /\ req' = NoReq
                           /\ UNCHANGED << calls, closeVars >>
    /\ UNCHANGED << requestVars, zi, current, buildCount, pollLabel, pollTarget,
                    pollTimeout, exportVars >>
    /\ UNCHANGED callVars

\* A start() that does not look at what pollUntilCountEquals returned
PollReturnsUnchecked ==
    /\ pc \in {"poll_converged", "poll_timedout"}
    /\ elapsed' = 0
    /\ AfterConverged(<< >>)
    /\ UNCHANGED << requestVars, current, buildCount, pollLabel, pollTarget,
                    pollTimeout, exportVars, upstreamVars >>
    /\ UNCHANGED callVars
    /\ reply' = NoReply

\* pollUntilCountEquals returned: start() resumes after its await with okDel,
\* okBuild or okDel2
PollReturns ==
    /\ pc \in {"poll_converged", "poll_timedout"}
    /\ elapsed' = 0
    /\ IF pc = "poll_converged"
         THEN AfterConverged(<< >>)
         ELSE Fail(<< >>, TimeoutError)
    /\ UNCHANGED << requestVars, current, buildCount, pollLabel, pollTarget,
                    pollTimeout, exportVars, upstreamVars >>
    /\ UNCHANGED callVars
    /\ reply' = NoReply

\* await sleep(POLL_INTERVAL_MS) is over: the loop's next count read
PollWake ==
    /\ pc = "poll_sleep"
    /\ elapsed' = elapsed + POLL_INTERVAL_MS
    /\ Await(CountReq(token), "poll_read")
    /\ UNCHANGED << requestVars, zi, current, buildCount, pollLabel, pollTarget,
                    pollTimeout, exportVars, stream, closeVars, upstreamVars >>
    /\ UNCHANGED callVars
    /\ reply' = NoReply

-----------------------------------------------------------------------------
(* The export                                                               *)

\* Math.ceil(total / LEADS_PER_PAGE)
PageCount(total) == (total + LEADS_PER_PAGE - 1) \div LEADS_PER_PAGE

\* begins[myIndex]
Begin(myIndex) == myIndex * LEADS_PER_PAGE

\* An export that starts one worker per page, whatever the cap
WorkerCountUncapped(cap, n) == n

\* Math.min(MAX_CONCURRENCY, begins.length)
WorkerCount(cap, n) == Min(cap, n)

\* A worker loop that takes the index before the cursor, which the claim
\* before it has taken already
WorkerLoopHeadRacy(i, n) ==
    IF i < n
      THEN [ claimed |-> TRUE, myIndex |-> IF i > 0 THEN i - 1 ELSE 0, idx |-> i + 1 ]
      ELSE [ claimed |-> FALSE, myIndex |-> -1, idx |-> i ]

\* worker(): `while (idx < begins.length) { const myIndex = idx++; ...`, with the
\* cursor at i and n pages
WorkerLoopHead(i, n) ==
    IF i < n
      THEN [ claimed |-> TRUE, myIndex |-> i, idx |-> i + 1 ]
      ELSE [ claimed |-> FALSE, myIndex |-> Finished, idx |-> i ]

\* Array.from({ length: k }, () => worker()): workers w..k each run up to their
\* first await, one after the other
RECURSIVE SpawnWorkers(_, _, _, _)
SpawnWorkers(w, k, n, st) ==
    IF w > k THEN st
    ELSE LET h == WorkerLoopHead(st.idx, n)
         IN  SpawnWorkers(w + 1, k, n,
               [ idx |-> h.idx,
                 workers |-> Append(st.workers, h.myIndex),
                 claims |-> IF h.claimed THEN Append(st.claims, << w, h.myIndex >>)
                            ELSE st.claims,
                 fetches |-> IF h.claimed
                               THEN Append(st.fetches, FetchReq(token, Begin(h.myIndex)))
                               ELSE st.fetches ])

\* const total = await getTotalLeadCount(token) in exportHomeownersCsvString,
\* then either the empty CSV (and on to the csv event and the cleanup's count
\* read) or the spawning of the workers
ExportCountReturns ==
    /\ pc = "export_count"
    /\ \E resp \in CountResponses(CountAnswers) :
         LET r == GetTotalLeadCount(resp)
             zip == zips[zi]
         IN  /\ reply' = resp
             /\ CountRead(resp)
             /\ IF ~r.ok
                  THEN /\ Fail(<< >>, Err(r.err, NoZip))
                       /\ UNCHANGED exportVars
                ELSE IF r.n <= 0
                  THEN /\ Emit(<< Plain("Nothing to export (0 leads)", zip),
                                  CsvEvent(zip, Base64(EmptyCsv)),
                                  Plain("Deleting all leads (cleanup)", zip) >>)
                       /\ Await(CountReq(token), "cleanup_count")
                       /\ pages' = 0
                       /\ idx' = 0
                       /\ results' = << >>
                       /\ workers' = << >>
                       /\ claims' = << >>
                       /\ slotWrites' = << >>
                       /\ UNCHANGED closeVars
                ELSE IF ~IsFinite(r.n)
                  \* Array.from({ length: Infinity }) throws a RangeError
                  THEN /\ Fail(<< ExportingLine(zip, r.n, r.n,
                                                WorkerCount(maxConcurrency, r.n)) >>,
                               Err("RangeError", NoZip))
                       /\ UNCHANGED exportVars
                ELSE LET n == PageCount(r.n)
                         k == WorkerCount(maxConcurrency, n)
                         st == SpawnWorkers(1, k, n,
                                 [ idx |-> 0, workers |-> << >>, claims |-> << >>,
                                   fetches |-> << >> ])
                     IN  /\ Emit(<< ExportingLine(zip, r.n, n, k) >>)
                         /\ pages' = n
                         /\ idx' = st.idx
                         /\ results' = << >>
                         /\ workers' = st.workers
                         /\ claims' = st.claims
                         /\ slotWrites' = [ i \in 0..(n - 1) |-> 0 ]
                         /\ calls' = calls \o st.fetches
                         /\ req' = NoReq
                         /\ pc' = "export_fetch"
                         /\ UNCHANGED closeVars
    /\ UNCHANGED << requestVars, zi, current, buildCount, pollVars >>
    /\ UNCHANGED callVars

\* An export that goes on as soon as one of its workers has returned
AnyReturned(after) == \E v \in DOMAIN after : after[v] = Finished

\* await Promise.all(workers) resolves: every worker has returned
AllReturned(after) == \A v \in DOMAIN after : after[v] = Finished

\* A worker that pushes its page onto the array when its fetch completes
WriteSlotPush(res, myIndex, parsed) ==
    (Cardinality(DOMAIN res) :> parsed) @@ res

\* results[myIndex] = parsed
WriteSlot(res, myIndex, parsed) == (myIndex :> parsed) @@ res

\* Worker w's await fetchLeadsPage(token, begin) settles: the try/catch around
\* the parse, the slot write and the line, then the loop's next claim; when the
\* last worker returns, Promise.all resolves and the export builds the CSV,
\* start() emits the csv event and issues the cleanup's count read
PageFetchReturns(w) ==
    /\ pc = "export_fetch"
    /\ w \in DOMAIN workers
    /\ workers[w] # Finished
    /\ \E resp \in PageAnswers(Begin(workers[w])) :
       \* const parsed = parseHomeownersFromPage(raw), or [] in the catch
       \E parsed \in { IF HttpPost(resp).ok /\ ~ParseThrows(resp.body)
                          THEN ParseHomeownersFromPage(HttpPost(resp).json)
                          ELSE << >> } :
         LET zip == zips[zi]
             myIndex == workers[w]
             r == HttpPost(resp)
             written == WriteSlot(results, myIndex, parsed)
             report == IF ~r.ok THEN PageErrorLine(zip, Begin(myIndex), r.err)
                       ELSE IF ParseThrows(r.json)
                         THEN PageErrorLine(zip, Begin(myIndex), "TypeError")
                       ELSE PageLine(zip, myIndex, Len(parsed))
             h == WorkerLoopHead(idx, pages)
             after == [ workers EXCEPT ![w] = h.myIndex ]
         IN  /\ reply' = resp
             /\ anomalies' = IF PageAnomaly(resp) THEN anomalies + 1 ELSE anomalies
             /\ results' = written
             /\ slotWrites' = [ slotWrites EXCEPT ![myIndex] = @ + 1 ]
             /\ workers' = after
             /\ idx' = h.idx
             /\ IF h.claimed
                  THEN /\ claims' = Append(claims, << w, h.myIndex >>)
                       /\ calls' = Append(calls, FetchReq(token, Begin(h.myIndex)))
                       /\ Emit(<< report >>)
                       /\ UNCHANGED << req, pc >>
                  ELSE IF ~AllReturned(after)
                    THEN /\ Emit(<< report >>)
                         /\ UNCHANGED << claims, calls, req, pc >>
                    ELSE \E b \in { BuildCsv(written, pages) } :
                             /\ Emit(<< report, CsvBuiltLine(zip, b),
                                        CsvEvent(zip, Base64(b.csv)),
                                        Plain("Deleting all leads (cleanup)", zip) >>)
                             /\ Await(CountReq(token), "cleanup_count")
                             /\ UNCHANGED claims
    /\ UNCHANGED << requestVars, zi, current, buildCount, pollVars, pages, closeVars,
                    leads, settling >>
    /\ UNCHANGED callVars

\* A cleanup that, like Phase 0, deletes only when the count is above 0
CleanupCountReturnsGuarded ==
    /\ pc = "cleanup_count"
    /\ \E resp \in CountResponses(CountAnswers) :
         LET r == GetTotalLeadCount(resp)
         IN  /\ reply' = resp
             /\ CountRead(resp)
             /\ IF ~r.ok
               THEN /\ Fail(<< >>, Err(r.err, NoZip))
                    /\ UNCHANGED << current, pollVars >>
               ELSE IF r.n > 0
                 THEN /\ current' = r.n
                      /\ Await(DeleteReq(token, r.n), "cleanup_delete")
                      /\ UNCHANGED << stream, closeVars, pollVars >>
               ELSE /\ current' = r.n
                    /\ StartPoll([ kind |-> "delete", zip |-> zips[zi] ], 0,
                                 POLL_DELETE_TIMEOUT_MS)
                    /\ UNCHANGED << stream, closeVars >>
    /\ UNCHANGED << requestVars, zi, buildCount, exportVars >>
    /\ UNCHANGED callVars

\* current = await getTotalLeadCount(token) of the cleanup, then the delete call
CleanupCountReturns ==
    /\ pc = "cleanup_count"
    /\ \E resp \in CountResponses(CountAnswers) :
         LET r == GetTotalLeadCount(resp)
         IN  /\ reply' = resp
             /\ CountRead(resp)
             /\ IF ~r.ok
               THEN /\ Fail(<< >>, Err(r.err, NoZip))
                    /\ UNCHANGED current
               ELSE /\ current' = r.n
                    /\ Await(DeleteReq(token, r.n), "cleanup_delete")
                    /\ UNCHANGED << stream, closeVars >>
    /\ UNCHANGED << requestVars, zi, buildCount, pollVars, exportVars >>
    /\ UNCHANGED callVars

\* await issueSingleDeleteAllExact(token, current) of the cleanup, then the
\* poll's entry
CleanupDeleteReturns ==
    /\ pc = "cleanup_delete"
    /\ \E resp \in DeleteAnswers :
         LET r == IssueSingleDeleteAllExact(resp)
         IN  /\ reply' = resp
             /\ DeleteSettles(resp)
             /\ IF ~r.ok
               THEN /\ Fail(<< >>, Err(r.err, NoZip))
                    /\ UNCHANGED pollVars
               ELSE /\ StartPoll([ kind |-> "delete", zip |-> zips[zi] ], 0,
                                 POLL_DELETE_TIMEOUT_MS)
                    /\ UNCHANGED << stream, closeVars >>
    /\ UNCHANGED << requestVars, zi, current, buildCount, exportVars >>
    /\ UNCHANGED callVars

Next ==
    \/ POST
    \/ InitCountReturns
    \/ InitDeleteReturns
    \/ BuildReturns
    \/ PollCountReturns
    \/ PollReturns
    \/ PollWake
    \/ ExportCountReturns
    \/ \E w \in DOMAIN workers : PageFetchReturns(w)
    \/ CleanupCountReturns
    \/ CleanupDeleteReturns

Spec == Init /\ [][Next]_vars

\* A step of PageFetchReturns, told by the slot it writes: some worker's fetch
\* is in flight and its slot gets its write
FetchSettles ==
    /\ pc = "export_fetch"
    /\ \E w \in DOMAIN workers :
         /\ workers[w] # Finished
         /\ slotWrites' = [ slotWrites EXCEPT ![workers[w]] = @ + 1 ]

\* Every await of the run settles: an upstream call resolves or rejects, a
\* sleep's timer fires, and the continuation then runs.
FairSpec ==
    /\ Spec
    /\ WF_vars(POST)
    /\ WF_vars(InitCountReturns)
    /\ WF_vars(InitDeleteReturns)
    /\ WF_vars(BuildReturns)
    /\ WF_vars(PollCountReturns)
    /\ WF_vars(PollReturns)
    /\ WF_vars(PollWake)
    /\ WF_vars(ExportCountReturns)
    /\ WF_slotWrites(FetchSettles)
    /\ WF_vars(CleanupCountReturns)
    /\ WF_vars(CleanupDeleteReturns)

-----------------------------------------------------------------------------
(* The worker pool under any concurrency cap                                *)

\* The lines of a one-region run with nothing to pre-delete, up to the export
PoolPrefix(zip, n) ==
    << PhaseEvent("Starting run", NoZip),
       Plain("Phase 0 - Detecting existing leads", NoZip),
       CountLine("Leads already detected", NoZip, 0),
       Plain("No existing leads, nothing to delete", NoZip),
       PhaseEvent("ZIP", zip),
       Plain("Building list", zip),
       CountLine("Build count (expected)", zip, n),
       CountLine("Polling count until it equals", zip, n),
       PollLine([ kind |-> "build", zip |-> zip ], n, n),
       Plain("Build complete", zip),
       Plain("Starting export (homeowner-only)", zip) >>

\* A one-region run suspended at the export's count read, the list holding 1
\* to MaxPages full pages or a last page that is not full, and the cap on the
\* workers being 1 to MaxCap
PoolInit ==
    /\ input = Request(TRUE, TRUE, TokenT, TRUE, << Zip90210 >>, << >>, FALSE)
    /\ response = [ status |-> 200, body |-> "stream" ]
    /\ pc = "export_count"
    /\ token = TokenT
    /\ zips = << Zip90210 >>
    /\ zi = 1
    /\ current = 0
    /\ leads \in { p * LEADS_PER_PAGE : p \in 1..MaxPages } \cup {SmallCount, LargeCount}
    /\ settling = leads
    /\ anomalies = 0
    /\ buildCount = leads
    /\ pollLabel = [ kind |-> "build", zip |-> Zip90210 ]
    /\ pollTarget = leads
    /\ pollTimeout = POLL_BUILD_TIMEOUT_MS
    /\ elapsed = 0
    /\ req = CountReq(TokenT)
    /\ reply = NoReply
    /\ pages = 0
    /\ idx = 0
    /\ results = << >>
    /\ workers = << >>
    /\ maxConcurrency \in 1..MaxCap
    /\ stream = PoolPrefix(Zip90210, leads)
    /\ closed = FALSE
    /\ closeCount = 0
    /\ calls = << CountReq(TokenT), BuildReq(TokenT, Zip90210), CountReq(TokenT),
                  CountReq(TokenT) >>
    /\ claims = << >>
    /\ slotWrites = << >>
    /\ called = "none"
    /\ given = << >>
    /\ returned = << >>

PoolNext ==
    \/ ExportCountReturns
    \/ \E w \in DOMAIN workers : PageFetchReturns(w)

PoolSpec == PoolInit /\ [][PoolNext]_vars

-----------------------------------------------------------------------------
(* The helpers, each called on its own                                      *)

\* The strings of at most n characters of an alphabet
Strings(alphabet, n) == UNION { [ 1..k -> alphabet ] : k \in 0..n }

\* The sequences of at most n members of a set
SeqsUpTo(set, n) == UNION { [ 1..k -> set ] : k \in 0..n }

PhoneIntl == << "+", "1", " ", "(", "5", "5", "5", ")", " ", "0", "1", "2", "-", "3", "4", "5", "6" >>
PhoneDotted == << "5", "5", "5", ".", "0", "1", "2", ".", "3", "4", "5", "6" >>
PhoneChars == {"+", "5", " ", ".", "("}
PhoneInputs == {Null, PhoneIntl, PhoneDotted} \cup Strings(PhoneChars, MaxLen)

NameChars == {"j", "O", "-", LigatureFi}
NameInputs == {NameJohn, NameJoAnn} \cup Strings(NameChars, MaxLen)

TypeWSpaced == << " ", "w", " " >>
Email2 == << "d", "@", "e" >>
Email3 == << "f", "@", "g" >>
NameQuoted == << "O", "\"", "N" >>
NameLigature == << LigatureFi, "O", "n", "a" >>

\* A property whose contact's only "W" tag is in lower case between spaces
PropSpacedTag ==
    Property(Addr1, << EntryOf([ EmptyContact EXCEPT
        !.given_name = NameJoAnn, !.phone_1 = Phone1Plain,
        !.phone_1_type = TypeWSpaced,
        !.email_address_1 = Email2, !.email_address_3 = Email3 ]) >>)

\* The address and mobile of PropThird, with three phones and three e-mails
PropFull ==
    Property(Addr2, << EntryOf([ EmptyContact EXCEPT
        !.given_name = NameJohn, !.surname = NameQuoted,
        !.phone_1 = Phone2, !.phone_1_type = TypeW,
        !.phone_2 = Phone1, !.phone_2_type = TypeL,
        !.phone_3 = PhoneDotted, !.phone_3_type = TypeL,
        !.email_address_1 = Email1, !.email_address_2 = Email2,
        !.email_address_3 = Email3 ]) >>)

\* A property whose contact's given name starts with the ligature
PropLigature ==
    Property(Addr2, << EntryOf([ EmptyContact EXCEPT
        !.given_name = NameLigature, !.phone_1 = Phone1,
        !.phone_1_type = TypeW ]) >>)

\* A property whose list of contact entries is empty
PropEmptyList == Property(Addr1, << >>)

\* Properties whose second entry has a "W" phone and whose first entry is the
\* one selected: an entry flagged as the homeowner's that has no contact, an
\* owner with a land line only, and an owner whose "W" slot repeats the
\* number of the land line in another spelling
Phone2Dotted == << "5", "5", "5", ".", "0", "2" >>
EntryMobile ==
    EntryOf([ EmptyContact EXCEPT !.given_name = NameJohn, !.phone_1 = Phone1,
                                  !.phone_1_type = TypeW ])
PropOwnerNoContact ==
    Property(Addr2, << [ EmptyEntry EXCEPT !.homeowner = TRUE ], EntryMobile >>)
PropOwnerNoMobile ==
    Property(Addr2,
      << EntryOf([ EmptyContact EXCEPT !.surname = NameDoe, !.role = RoleOwner,
                                       !.phone_1 = Phone2, !.phone_1_type = TypeL ]),
         EntryMobile >>)
PropOwnerRepeated ==
    Property(Addr2,
      << EntryOf([ EmptyContact EXCEPT !.surname = NameDoe, !.role = RoleOwner,
                                       !.phone_1 = Phone2, !.phone_1_type = TypeL,
                                       !.phone_2 = Phone2Dotted, !.phone_2_type = TypeW ]),
         EntryMobile >>)

PropertyPool ==
    { PropMobile, PropNoMobile, PropDuplicate, PropNoEntries, PropThird,
      PropSpacedTag, PropFull, PropLigature, PropEmptyList,
      PropOwnerNoContact, PropOwnerNoMobile, PropOwnerRepeated }

PageInputs ==
    { RawPage(props) : props \in SeqsUpTo(PropertyPool, MaxProps) }
    \cup { ErrorPage }

\* Contact entries: one that nothing marks as the homeowner's, one whose
\* contact has a flag set, one with a flag of its own and no contact, one whose
\* contact's role holds the word in mixed case, one whose own type holds it in
\* upper case, and one whose strings do not hold it
RoleTenant == << "T", "e", "n", "a", "n", "t" >>
TypeOwnerUpper == << "H", "O", "M", "E", "O", "W", "N", "E", "R", "S" >>
EntryPlain == EntryOf([ EmptyContact EXCEPT !.given_name = NameJohn ])
EntryFlagged == EntryOf([ EmptyContact EXCEPT !.given_name = NameJoAnn, !.is_primary = TRUE ])
EntryOwnFlag == [ EmptyEntry EXCEPT !.homeowner = TRUE ]
EntryRole == EntryOf([ EmptyContact EXCEPT !.surname = NameDoe, !.role = RoleOwner ])
EntryOwnType == [ EmptyEntry EXCEPT !.type = TypeOwnerUpper ]
EntryTenant == EntryOf([ EmptyContact EXCEPT !.relationship = RoleTenant, !.type = << >> ])
EntryPool == { EntryPlain, EntryFlagged, EntryOwnFlag, EntryRole, EntryOwnType, EntryTenant }

\* The properties selectHomeownerEntry is called with: every list of up to
\* MaxEntries entries of the pool, and a property without a list
SelectInputs ==
    { Property(Addr1, entries) : entries \in SeqsUpTo(EntryPool, MaxEntries) }
    \cup { PropNoEntries }

\* The phone slots the loop over phoneTriples is run on: absent, blank, two
\* spellings of one number, and two numbers that differ by the "+" alone,
\* each typed "W" or " L"
Phone2Spaced == << " ", "5", "5", "5", " ", "0", "2" >>
TypeLSpaced == << " ", "L" >>
SlotInputs ==
    { [ num |-> n, typ |-> t ] :
        n \in { Null, TokenBlank, Phone2, Phone2Spaced, Phone1, Phone1Plain },
        t \in { TypeW, TypeLSpaced } }

\* The contacts contactFirstLast is called with: each name field absent,
\* blank, or set, the full name of one, two or three words
NamePadded == << " ", "j", "o", "-", "A", "N", "N", " " >>
FullOne == << " ", "m", "a", "r", "y", " " >>
FullTwo == << "m", "a", "r", "y", " ", "\t", "P", "u", "b", "l", "i", "c" >>
ContactInputs ==
    { [ EmptyContact EXCEPT !.given_name = g, !.surname = sn, !.full_name = f ] :
        g \in { Null, TokenBlank, NameJohn, NamePadded },
        sn \in { Null, TokenBlank, NameDoe },
        f \in { Null, TokenBlank, FullOne, FullTwo, FullName } }

\* The rows the parser makes of the pool's properties
RowPool == UNION { { ParseProperty(p)[i] : i \in DOMAIN ParseProperty(p) } :
                     p \in PropertyPool }

RowInputs == SeqsUpTo(RowPool, MaxRows)

runVars == << requestVars, pc, zi, current, buildCount, pollVars, req, reply,
              exportVars, stream, closeVars, calls, upstreamVars >>

HelperInit ==
    /\ Init
    /\ input = Request(TRUE, TRUE, TokenT, TRUE, << Zip90210 >>, << >>, FALSE)
    /\ leads = 0

\* normalizePhone(num)
CallNormalizePhone ==
    /\ called = "none"
    /\ \E num \in PhoneInputs :
         /\ called' = "normalizePhone"
         /\ given' = num
         /\ returned' = NormalizePhone(num)
    /\ UNCHANGED runVars

\* capitalizeFirstOnly(s)
CallCapitalizeFirstOnly ==
    /\ called = "none"
    /\ \E s \in NameInputs :
         /\ called' = "capitalizeFirstOnly"
         /\ given' = s
         /\ returned' = CapitalizeFirstOnly(s)
    /\ UNCHANGED runVars

\* parseHomeownersFromPage(rawPage)
CallParseHomeownersFromPage ==
    /\ called = "none"
    /\ \E rawPage \in PageInputs :
         /\ called' = "parseHomeownersFromPage"
         /\ given' = rawPage
         /\ returned' = ParseHomeownersFromPage(rawPage)
    /\ UNCHANGED runVars

\* The de-duplication loop of exportHomeownersCsvString on allRows
CallDedup ==
    /\ called = "none"
    /\ \E allRows \in RowInputs :
         /\ called' = "dedup"
         /\ given' = allRows
         /\ returned' = Dedup(allRows)
    /\ UNCHANGED runVars

\* exportHomeownersCsvString from results.flat() on, with one page in results
CallBuildCsv ==
    /\ called = "none"
    /\ \E allRows \in RowInputs :
         /\ called' = "buildCsv"
         /\ given' = allRows
         /\ returned' = BuildCsv(0 :> allRows, 1)
    /\ UNCHANGED runVars

\* selectHomeownerEntry(property)
CallSelectHomeownerEntry ==
    /\ called = "none"
    /\ \E property \in SelectInputs :
         /\ called' = "selectHomeownerEntry"
         /\ given' = property
         /\ returned' = SelectHomeownerEntry(property)
    /\ UNCHANGED runVars

\* The loop over phoneTriples of parseHomeownersFromPage
CallScanPhones ==
    /\ called = "none"
    /\ \E p1 \in SlotInputs, p2 \in SlotInputs, p3 \in SlotInputs :
         /\ called' = "phoneTriples"
         /\ given' = << p1, p2, p3 >>
         /\ returned' = ScanPhones(<< p1, p2, p3 >>,
                                   [ seen |-> {}, phones |-> << >>, mobile |-> << >> ])
    /\ UNCHANGED runVars

\* The polls pollUntilCountEquals is called for: a budget below 0 and budgets
\* of up to MaxSleeps intervals and one millisecond more; an upstream whose
\* reads take no time or LatencyShort, report 0 or SmallCount, or fail
PollBudgets ==
    { -1 } \cup { k * POLL_INTERVAL_MS + d : k \in 0..MaxSleeps, d \in {0, 1} }
PollAnswers ==
    { [ ok |-> TRUE, n |-> n, latency |-> l ] :
        n \in {0, SmallCount}, l \in {0, LatencyShort} }
    \cup { [ ok |-> FALSE, n |-> 0, latency |-> 0 ] }
PollScripts == SeqsUpTo(PollAnswers, MaxReads) \ { << >> }

\* pollUntilCountEquals(token, target, timeoutMs, label, controller)
CallPollUntilCountEquals ==
    /\ called = "none"
    /\ \E script \in PollScripts, target \in {0, SmallCount}, timeoutMs \in PollBudgets :
         /\ called' = "pollUntilCountEquals"
         /\ given' = [ script |-> script, target |-> target, timeoutMs |-> timeoutMs ]
         /\ returned' = PollUntilCountEquals(script, target, timeoutMs)
    /\ UNCHANGED runVars

\* The lines the page's reader hands to handleStreamLine: the empty line, a
\* text JSON.parse rejects, the text "null", and a text it parses to an object
\* whose fields are absent, numbers or strings
TypeCsv == << "c", "s", "v" >>
TypePhase == << "p", "h", "a", "s", "e" >>
TypeOther == << "l", "o", "g" >>
EmptyLine == [ kind |-> "empty" ]
TextLine == [ kind |-> "text" ]
NullLine == [ kind |-> "null" ]
JsonLine(value) == [ kind |-> "json", value |-> value ]
JsonObject(type, zip, filename, data, message) ==
    [ type |-> type, zip |-> zip, filename |-> filename, dataBase64 |-> data,
      message |-> message ]

\* typeof v === "string"
IsString(v) == v \notin { Null, NumberValue }

\* What the reader finds on the wire for a line the run wrote: jsonLine sends
\* JSON.stringify of the event, line sends the text, which is no JSON
Wire(l) ==
    IF ~l.json THEN TextLine
    ELSE IF l.type = "csv"
      THEN JsonLine(JsonObject(TypeCsv, l.zip, l.filename, l.dataBase64, Null))
    ELSE JsonLine(JsonObject(TypePhase, Null, Null, Null, << l.message >>))

\* Whether atob(data) throws: with white space removed and, for a length that
\* is a multiple of four, up to two "=" taken from the end, the length is one
\* more than a multiple of four or a character is outside the alphabet
AtobThrows(data) ==
    LET stripped == SelectSeq(data, LAMBDA c : c \notin Whitespace)
        n == Len(stripped)
        cut == IF n % 4 = 0 /\ n > 0 /\ stripped[n] = "="
                 THEN (IF stripped[n - 1] = "=" THEN 2 ELSE 1)
                 ELSE 0
        body == SubSeq(stripped, 1, n - cut)
    IN  \/ Len(body) % 4 = 1
        \/ \E i \in DOMAIN body : \A k \in 1..64 : Base64Alphabet[k] # body[i]

\* handleStreamLine: what is added to the log and whether a download is added
HandleStreamLine(line) ==
    IF line.kind = "empty" THEN [ log |-> "none", download |-> FALSE ]
    ELSE IF line.kind = "text" THEN [ log |-> "line", download |-> FALSE ]
    \* obj && ... is false for null
    ELSE IF line.kind = "null" THEN [ log |-> "line", download |-> FALSE ]
    ELSE LET obj == line.value
         IN  IF /\ obj.type = TypeCsv
                /\ IsString(obj.zip)
                /\ IsString(obj.filename)
                /\ IsString(obj.dataBase64)
               THEN IF AtobThrows(obj.dataBase64)
                      \* the catch around JSON.parse takes atob's exception too
                      THEN [ log |-> "line", download |-> FALSE ]
                      ELSE [ log |-> "CSV ready", download |-> TRUE ]
             ELSE IF obj.type = TypePhase /\ obj.message \notin { Null, << >> }
               THEN [ log |-> "message", download |-> FALSE ]
             ELSE [ log |-> "line", download |-> FALSE ]

DataChars == {"A", "=", "*"}
StreamLineInputs ==
    { EmptyLine, TextLine, NullLine,
      Wire(PhaseEvent("Starting run", NoZip)),
      Wire(CsvEvent(Zip90210, Base64(EmptyCsv))),
      Wire(Plain("Building list", Zip90210)) }
    \cup { JsonLine(JsonObject(type, zip, filename, data, message)) :
             type \in { TypeCsv, TypePhase, TypeOther },
             zip \in { Null, Zip90210 },
             filename \in { NumberValue, Zip90210 \o DotCsv },
             data \in { Null } \cup Strings(DataChars, MaxLen),
             message \in { Null, << >>, TypeOther } }

\* handleStreamLine(line)
CallHandleStreamLine ==
    /\ called = "none"
    /\ \E l \in StreamLineInputs :
         /\ called' = "handleStreamLine"
         /\ given' = l
         /\ returned' = HandleStreamLine(l)
    /\ UNCHANGED runVars

\* The field values escapeCsvValue is called with: the strings over the three
\* characters it looks for, a carriage return and a letter
FieldChars == {",", "\"", "\n", "\r", "a"}
FieldInputs == Strings(FieldChars, MaxLen)

\* escapeCsvValue(value)
CallEscapeCsvValue ==
    /\ called = "none"
    /\ \E value \in FieldInputs :
         /\ called' = "escapeCsvValue"
         /\ given' = value
         /\ returned' = EscapeCsvValue(value)
    /\ UNCHANGED runVars

\* contactFirstLast(c)
CallContactFirstLast ==
    /\ called = "none"
    /\ \E c \in ContactInputs :
         /\ called' = "contactFirstLast"
         /\ given' = c
         /\ returned' = ContactFirstLast(c)
    /\ UNCHANGED runVars

HelperNext ==
    \/ CallPollUntilCountEquals
    \/ CallHandleStreamLine
    \/ CallEscapeCsvValue
    \/ CallContactFirstLast
    \/ CallScanPhones
    \/ CallSelectHomeownerEntry
    \/ CallNormalizePhone
    \/ CallCapitalizeFirstOnly
    \/ CallParseHomeownersFromPage
    \/ CallDedup
    \/ CallBuildCsv

HelperSpec == HelperInit /\ [][HelperNext]_vars

-----------------------------------------------------------------------------
(* What the stream and the upstream calls of a run show                     *)

IsBuildCall(c) == c.op = "build"
IsDeleteCall(c) == c.op = "delete"
IsFetchCall(c) == c.op = "fetch"

IsPollLine(l) == ~l.json /\ l.text = "Poll"
IsInitPoll(l) == IsPollLine(l) /\ l.label.kind = "delete" /\ l.label.zip = InitTag
IsCleanupPoll(l) == IsPollLine(l) /\ l.label.kind = "delete" /\ l.label.zip # InitTag
IsBuildPoll(l) == IsPollLine(l) /\ l.label.kind = "build"

InitConvergedLine(l) == IsInitPoll(l) /\ l.current = 0 /\ l.target = 0
CleanupConvergedLine(l) == IsCleanupPoll(l) /\ l.current = 0 /\ l.target = 0
BuildConvergedLine(l) == IsBuildPoll(l) /\ l.current = l.target
DetectedLine(l) == ~l.json /\ l.text = "Leads already detected"
ExportStartLine(l) == ~l.json /\ l.text = "Starting export (homeowner-only)"
CleanupStartLine(l) == ~l.json /\ l.text = "Deleting all leads (cleanup)"
PageFailureLine(l) == ~l.json /\ l.text = "Error fetching page"

BuildCalls == SelectSeq(calls, IsBuildCall)
BuildsIssued == Len(BuildCalls)
CsvEvents == SelectSeq(stream, IsCsv)
Terminals == SelectSeq(stream, IsTerminal)
HasError == \E i \in DOMAIN stream : IsError(stream[i])
Detected == SelectSeq(stream, DetectedLine)
InitConverged == \E i \in DOMAIN stream : InitConvergedLine(stream[i])
CleanupsConverged == SelectSeq(stream, CleanupConvergedLine)
BuildsConverged == SelectSeq(stream, BuildConvergedLine)
ExportsStarted == SelectSeq(stream, ExportStartLine)
CleanupsStarted == SelectSeq(stream, CleanupStartLine)

\* The calls made before the first region's build call
PreCalls ==
    IF BuildsIssued = 0 THEN calls
    ELSE SubSeq(calls, 1, (CHOOSE i \in DOMAIN calls :
                             /\ IsBuildCall(calls[i])
                             /\ \A j \in 1..(i - 1) : ~IsBuildCall(calls[j])) - 1)

\* The delete calls made after the first region's build call
CleanupDeletes == SelectSeq(SubSeq(calls, Len(PreCalls) + 1, Len(calls)), IsDeleteCall)

LastLine == stream[Len(stream)]
InitLabel == [ kind |-> "delete", zip |-> InitTag ]

-----------------------------------------------------------------------------
(* C1 *)

\* C1: regions are processed one after the other in request order: the k-th
\* build call is for the k-th surviving zip, the k-th cleanup poll that reads 0
\* is the k-th zip's, and the number of build calls issued exceeds the number
\* of cleanup polls that have converged at 0 by at most one, so the build call
\* of region i+1 is not issued before region i's cleanup poll has converged
\* and no two regions are between build call and cleanup convergence at once.
C1_RegionsSequential ==
    /\ BuildsIssued <= Len(zips)
    /\ \A k \in 1..BuildsIssued : BuildCalls[k].zip = zips[k]
    /\ Len(CleanupsConverged) <= BuildsIssued
    /\ \A k \in 1..Len(CleanupsConverged) : CleanupsConverged[k].label.zip = zips[k]
    /\ BuildsIssued - Len(CleanupsConverged) \in {0, 1}
    /\ pc \notin {"request", "rejected"} => zi = BuildsIssued

\* The second region's build call has been issued, the first region's cleanup
\* having converged
C1_Witness ==
    /\ BuildsIssued = 2
    /\ Len(CleanupsConverged) = 1
    /\ zips[1] # zips[2]

-----------------------------------------------------------------------------
(* C2 *)

\* C2: a failure aborts the whole run: the run is in its failed state exactly
\* when the stream holds an ERROR line, and from the step that writes the ERROR
\* line on no upstream call of any kind is issued, no csv event is emitted and
\* no later region is entered.
C2_FailureAborts ==
    /\ [](HasError <=> pc = "failed")
    /\ [][HasError' => /\ calls' = calls
                       /\ CsvEvents' = CsvEvents
                       /\ zi' = zi]_vars

\* The first of two regions has failed with its build call made
C2_Witness ==
    /\ HasError
    /\ Len(zips) = 2
    /\ zi = 1
    /\ BuildsIssued = 1

-----------------------------------------------------------------------------
(* C3 *)

\* What Phase 0 does apart from the size its delete call carries: the run's
\* first call is the count read; a count above 0 is followed by one delete
\* call, then by nothing but the poll's count reads until the first build call,
\* the poll waits for 0 with the 30-minute budget and the build call follows a
\* poll line that reads 0; a count of 0 is followed by the build call at once.
PreDeleteOutline ==
    /\ calls # << >> => calls[1].op = "count"
    /\ Len(Detected) <= 1
    /\ Detected = << >> => Len(calls) <= 1
    /\ Detected # << >> =>
         LET n == Detected[1].count
         IN  IF n > 0
               THEN /\ Len(PreCalls) >= 2
                    /\ PreCalls[2].op = "delete"
                    /\ \A j \in 3..Len(PreCalls) : PreCalls[j].op = "count"
                    /\ BuildsIssued > 0 => InitConverged
                    /\ \A i \in DOMAIN stream :
                         IsInitPoll(stream[i]) => stream[i].target = 0
                    /\ pollLabel = InitLabel =>
                         /\ pollTarget = 0
                         /\ pollTimeout = 30 * 60 * 1000
                         /\ pc = "poll_sleep" => elapsed <= 30 * 60 * 1000
                         /\ pc = "poll_timedout" => elapsed > 30 * 60 * 1000
               ELSE n = 0 =>
                    /\ Len(PreCalls) = 1
                    /\ \A i \in DOMAIN stream : ~IsInitPoll(stream[i])
                    /\ pollLabel # InitLabel

\* C3: Phase 0 reads the count once; above 0 it issues exactly one delete call
\* and polls to 0 with the 30-minute budget, at 0 it issues no delete call and
\* does not poll before the first build call.  The delete call's total_count
\* is the count just read when that is a finite number, and 0 when it is not.
C3_PreDelete ==
    /\ PreDeleteOutline
    /\ (Detected # << >> /\ Detected[1].count > 0) =>
         PreCalls[2].total_count =
           IF Detected[1].count = Infinity THEN 0 ELSE Detected[1].count

\* C3 as stated: the delete call's total_count is the count just read, whatever
\* the count.
C3_PreDeleteExact ==
    /\ PreDeleteOutline
    /\ (Detected # << >> /\ Detected[1].count > 0) =>
         PreCalls[2].total_count = Detected[1].count

\* Phase 0 read a finite count above 0, deleted, polled to 0 and the first
\* region's build call has been issued
C3_Witness ==
    /\ Detected # << >>
    /\ Detected[1].count = SmallCount
    /\ PreCalls[2].total_count = SmallCount
    /\ InitConverged
    /\ BuildsIssued = 1

-----------------------------------------------------------------------------
(* C4 *)

\* The ERROR line of a Phase 0 poll that timed out
InitTimeoutLine == ErrorLine(Err("Timed out waiting for initial delete to finish", NoZip))

\* C4: when the Phase 0 delete was issued and its poll has not read 0, no build
\* call has been issued and no csv event emitted; the poll gives up only past
\* its 30 minutes; and a run that ended on that poll's timeout has made no
\* build call and emitted no csv event.
C4_PreDeleteTimeout ==
    /\ (Len(calls) >= 2 /\ calls[2].op = "delete" /\ ~InitConverged) =>
         /\ BuildsIssued = 0
         /\ CsvEvents = << >>
    /\ (pc = "poll_timedout" /\ pollLabel = InitLabel) =>
         /\ ~InitConverged
         /\ elapsed > 30 * 60 * 1000
    /\ (stream # << >> /\ LastLine = InitTimeoutLine) =>
         /\ pc = "failed"
         /\ ~InitConverged
         /\ BuildsIssued = 0
         /\ CsvEvents = << >>
         /\ \A i \in DOMAIN calls : calls[i].op \in {"count", "delete"}

\* The run has failed on the timeout of the Phase 0 poll
C4_Witness ==
    /\ pc = "failed"
    /\ LastLine = InitTimeoutLine
    /\ \E i \in DOMAIN stream : IsInitPoll(stream[i]) /\ stream[i].current # 0

-----------------------------------------------------------------------------
(* C5 *)

\* The steps of a region apart from the size its delete call carries.  Each
\* step has been taken for as many regions as the step before it or for one
\* fewer, and for no fewer than the build call less one: build call, build poll
\* read at its target, export started, csv event, cleanup begun (the count is
\* re-read), cleanup delete call, cleanup poll read at 0.  A run that is done
\* has taken every step for every region.  Page fetches are in flight only
\* inside an export.  A build poll waits for the build's count with the
\* 60-minute budget, a delete poll for 0 with the 30-minute budget.
RegionOutline ==
    /\ Len(BuildsConverged) \in {BuildsIssued - 1, BuildsIssued}
    /\ Len(ExportsStarted) \in {Len(BuildsConverged) - 1, Len(BuildsConverged)}
    /\ Len(CsvEvents) \in {Len(ExportsStarted) - 1, Len(ExportsStarted)}
    /\ Len(CleanupsStarted) \in {Len(CsvEvents) - 1, Len(CsvEvents)}
    /\ Len(CleanupDeletes) \in {Len(CleanupsStarted) - 1, Len(CleanupsStarted)}
    /\ Len(CleanupsConverged) \in {Len(CleanupDeletes) - 1, Len(CleanupDeletes)}
    /\ Len(CleanupsConverged) \in {BuildsIssued - 1, BuildsIssued}
    /\ Len(CleanupDeletes) <= Len(CsvEvents)
    /\ pc = "done" =>
         /\ BuildsIssued = Len(zips)
         /\ Len(CleanupsConverged) = Len(zips)
    /\ pc = "export_fetch" =>
         /\ Len(ExportsStarted) = BuildsIssued
         /\ Len(CsvEvents) = BuildsIssued - 1
    /\ (\E i \in DOMAIN calls : IsFetchCall(calls[i])) => Len(ExportsStarted) >= 1
    /\ pollLabel.kind = "build" =>
         /\ pollTarget = buildCount
         /\ pollTimeout = 60 * 60 * 1000
         /\ pc = "poll_sleep" => elapsed <= 60 * 60 * 1000
         /\ pc = "poll_timedout" => elapsed > 60 * 60 * 1000
    /\ pollLabel.kind = "delete" =>
         /\ pollTarget = 0
         /\ pollTimeout = 30 * 60 * 1000
         /\ pc = "poll_sleep" => elapsed <= 30 * 60 * 1000
         /\ pc = "poll_timedout" => elapsed > 30 * 60 * 1000
    /\ pc = "cleanup_delete" =>
         /\ req.op = "delete"
         /\ req = calls[Len(calls)]
         /\ Len(CleanupDeletes) = Len(CsvEvents)

\* C5: every region takes its steps in the one order and skips none on the
\* success path, and the cleanup delete call is never issued before the
\* region's csv event.  The delete call's total_count is the count re-read
\* when that is a finite number, and 0 when it is not.
C5_RegionSteps ==
    /\ RegionOutline
    /\ pc = "cleanup_delete" =>
         req.total_count = IF current = Infinity THEN 0 ELSE current

\* C5 as stated: the delete call's total_count is the count re-read, whatever
\* the count.
C5_RegionStepsExact ==
    /\ RegionOutline
    /\ pc = "cleanup_delete" => req.total_count = current

\* A region's cleanup delete call is in flight, sized to the count of a list
\* of two pages that was exported
C5_Witness ==
    /\ pc = "cleanup_delete"
    /\ current = LargeCount
    /\ req.total_count = LargeCount
    /\ Len(CsvEvents) = 1
    /\ \E i \in DOMAIN calls : IsFetchCall(calls[i])

-----------------------------------------------------------------------------
(* C6 *)

\* C6: a stream holds at most one terminal line, and once it holds one that
\* line is its last and the stream is closed; a closed stream holds one; a run
\* that is done ends with the Done line and holds no ERROR line, page failures
\* or not; a run that failed ends with one ERROR line and holds no Done line.
C6_OneTerminalLine ==
    /\ Len(Terminals) <= 1
    /\ Terminals # << >> =>
         /\ IsTerminal(LastLine)
         /\ closed
    /\ closed => Len(Terminals) = 1
    /\ pc = "done" => Terminals = << DoneLine >>
    /\ pc = "failed" => IsError(LastLine)
    /\ pc \in {"done", "failed"} <=> closed
    /\ pc = "rejected" => stream = << >>

\* A run is done with a page failure on its stream
C6_Witness ==
    /\ pc = "done"
    /\ LastLine = DoneLine
    /\ \E i \in DOMAIN stream : PageFailureLine(stream[i])

-----------------------------------------------------------------------------
(* C7 *)

\* C7: the stream is closed at most once, stays closed, and every run that
\* opened one (the request was answered 200) ends done or failed with the
\* stream closed once, given that every await of the run settles.
C7_AlwaysCloses ==
    /\ [](closeCount <= 1)
    /\ [](closed <=> closeCount = 1)
    /\ [][closed => closed']_vars
    /\ [](response.status = 200 =>
            <>(closed /\ closeCount = 1 /\ pc \in {"done", "failed"}))

\* A two-region run has failed in its second region and closed the stream
C7_Witness ==
    /\ closed
    /\ closeCount = 1
    /\ pc = "failed"
    /\ zi = 2

-----------------------------------------------------------------------------
(* C8 *)

\* C8: the k-th csv event carries the k-th surviving zip and the filename
\* "<zip>.csv"; there is one for every region whose export completed (every
\* region before the current one, and the current one once its cleanup has
\* begun) and none for any other; a run that is done has emitted one per
\* region, all before the Done line; a failed run has emitted those of the
\* regions before the one that failed, and that one's if its export completed.
C8_CsvEvents ==
    /\ Len(CsvEvents) <= Len(zips)
    /\ \A k \in 1..Len(CsvEvents) :
         /\ CsvEvents[k].zip = zips[k]
         /\ CsvEvents[k].filename = zips[k] \o << ".", "c", "s", "v" >>
    /\ Len(CsvEvents) = Len(CleanupsStarted)
    /\ zi >= 1 => Len(CsvEvents) \in {zi - 1, zi}
    /\ pc \in {"build", "export_count", "export_fetch"} => Len(CsvEvents) = zi - 1
    /\ pc \in {"cleanup_count", "cleanup_delete"} => Len(CsvEvents) = zi
    /\ pc = "done" =>
         /\ Len(CsvEvents) = Len(zips)
         /\ LastLine = DoneLine

\* A two-region run has failed with the first region's csv event emitted and
\* the second's not
C8_Witness ==
    /\ pc = "failed"
    /\ Len(zips) = 2
    /\ zi = 2
    /\ Len(CsvEvents) = 1

-----------------------------------------------------------------------------
(* C9 *)

\* The ERROR line of a build poll that timed out
BuildTimeoutLine(zip) == ErrorLine(Err("Timed out waiting for build", zip))

\* What holds of a build poll in every state: an export is started only for a
\* region whose build poll read its target; the poll ends converged on a read
\* that equals the build's count, sleeps while the count differs and the 60
\* minutes are not over, and ends timed out only on a differing read past the
\* 60 minutes; a build-timeout ERROR line names the region and leaves the
\* region without export and csv event.
BuildPollOutline ==
    /\ Len(ExportsStarted) <= Len(BuildsConverged)
    /\ Len(BuildsConverged) - Len(ExportsStarted) =
         IF pc = "poll_converged" /\ pollLabel.kind = "build" THEN 1 ELSE 0
    /\ (pc = "poll_converged" /\ pollLabel.kind = "build") =>
         /\ BuildConvergedLine(LastLine)
         /\ LastLine.target = buildCount
    /\ (pc = "poll_sleep" /\ pollLabel.kind = "build") =>
         /\ IsBuildPoll(LastLine)
         /\ LastLine.current # buildCount
         /\ elapsed <= 60 * 60 * 1000
    /\ (pc = "poll_timedout" /\ pollLabel.kind = "build") =>
         /\ IsBuildPoll(LastLine)
         /\ LastLine.current # buildCount
         /\ elapsed > 60 * 60 * 1000
         /\ Len(BuildsConverged) = zi - 1
    /\ \A i \in DOMAIN stream :
         (IsError(stream[i]) /\ stream[i].msg.name = "Timed out waiting for build") =>
           /\ pc = "failed"
           /\ stream[i] = BuildTimeoutLine(zips[zi])
           /\ Len(BuildsConverged) = zi - 1
           /\ Len(ExportsStarted) = zi - 1
           /\ Len(CsvEvents) = zi - 1
           /\ calls[Len(calls)].op = "count"

\* C9: a build poll that reads its target ends converged and the run goes on
\* to the region's export; one that does not read it before the 60 minutes are
\* over ends the run with an ERROR line that names the region, the region's
\* export never started.
C9_BuildPoll ==
    /\ []BuildPollOutline
    /\ [][(pc = "poll_converged" /\ pollLabel.kind = "build") =>
            /\ pc' = "export_count"
            /\ stream' = stream \o << Plain("Build complete", zips[zi]),
                                      Plain("Starting export (homeowner-only)", zips[zi]) >>
            /\ calls' = Append(calls, CountReq(token))]_vars
    /\ [][(pc = "poll_timedout" /\ pollLabel.kind = "build") =>
            /\ pc' = "failed"
            /\ stream' = Append(stream, BuildTimeoutLine(zips[zi]))
            /\ calls' = calls]_vars

\* A run has failed on the timeout of its second region's build poll
C9_Witness ==
    /\ pc = "failed"
    /\ zi = 2
    /\ LastLine = BuildTimeoutLine(zips[2])
    /\ Len(ExportsStarted) = 1

-----------------------------------------------------------------------------
(* C10 *)

\* The page indices claimed so far
ClaimedIndices == { claims[i][2] : i \in DOMAIN claims }

\* C10: in the worker pool no two claims are of the same index, the indices
\* claimed are those below the cursor, every claim is by one of the workers,
\* no slot is written more than once and only a claimed slot is written; when
\* the workers have all returned, every index 0..P-1 has been claimed and
\* every slot written once.
C10_WorkerPool ==
    pc \in {"export_fetch", "cleanup_count"} /\ pages > 0 =>
      /\ \A i, j \in DOMAIN claims : i # j => claims[i][2] # claims[j][2]
      /\ ClaimedIndices = 0..(idx - 1)
      /\ idx <= pages
      /\ Len(workers) = Min(maxConcurrency, pages)
      /\ \A i \in DOMAIN claims : claims[i][1] \in DOMAIN workers
      /\ DOMAIN slotWrites = 0..(pages - 1)
      /\ \A i \in DOMAIN slotWrites :
           /\ slotWrites[i] <= 1
           /\ slotWrites[i] = 1 => i \in ClaimedIndices
           /\ slotWrites[i] = 1 <=> i \in DOMAIN results
      /\ \A w \in DOMAIN workers :
           workers[w] # Finished =>
             /\ << w, workers[w] >> \in { claims[i] : i \in DOMAIN claims }
             /\ slotWrites[workers[w]] = 0
      /\ pc = "cleanup_count" =>
           /\ ClaimedIndices = 0..(pages - 1)
           /\ \A i \in 0..(pages - 1) : slotWrites[i] = 1

\* The pool has fetched more pages than it has workers, and each worker has
\* claimed at least one of them
C10_Witness ==
    /\ pc = "cleanup_count"
    /\ pages = MaxPages
    /\ Len(workers) = 2
    /\ maxConcurrency = 2
    /\ \A w \in DOMAIN workers : \E i \in DOMAIN claims : claims[i][1] = w
    /\ \A i \in 0..(pages - 1) : slotWrites[i] = 1

-----------------------------------------------------------------------------
(* C11                                                                      *)

\* The line the worker wrote about page index i
IsPageReport(l, i) ==
    /\ ~l.json
    /\ \/ l.text = "Page parsed" /\ l.page = i + 1
       \/ l.text = "Error fetching page" /\ l.begin = Begin(i)

\* The position in the stream of the line about page index i (0: none yet)
ReportAt(i) ==
    IF \E k \in DOMAIN stream : IsPageReport(stream[k], i)
      THEN CHOOSE k \in DOMAIN stream : IsPageReport(stream[k], i)
      ELSE 0

\* Whether page index i came back as a page of the working set, which the
\* line about it tells: such a page has rows, a failed or refused fetch none
PageArrived(i) ==
    /\ ReportAt(i) > 0
    /\ stream[ReportAt(i)].text = "Page parsed"
    /\ stream[ReportAt(i)].rows > 0

\* The rows of page index i as the upstream lists them
RowsOfPage(i) ==
    IF PageArrived(i)
      THEN ParseHomeownersFromPage(RawPage(LeadsAt(leads, Begin(i))))
      ELSE << >>

\* The rows of pages from..(n - 1), by ascending offset
RECURSIVE RowsAscending(_, _)
RowsAscending(from, n) ==
    IF from >= n THEN << >> ELSE RowsOfPage(from) \o RowsAscending(from + 1, n)

\* C11: when the workers have all returned, the rows handed to the
\* de-duplication are those of page 0, then those of page 1, and so on, whatever
\* the order in which the fetches completed; so the row count the export
\* reports and the CSV it returns are those of the pages taken by ascending
\* offset, and depend on nothing but what each page held.
C11_AscendingOffsets ==
    pc = "cleanup_count" /\ pages > 0 =>
      /\ Flat(results, 0, pages) = RowsAscending(0, pages)
      /\ \E k \in DOMAIN stream :
           /\ IsCsv(stream[k])
           /\ stream[k].dataBase64 =
                Base64(BuildCsv([ i \in 0..(pages - 1) |-> RowsOfPage(i) ], pages).csv)

\* The fetch of the second page completed before the fetch of the first, both
\* pages arrived, and the export is over
C11_Witness ==
    /\ pc = "cleanup_count"
    /\ pages >= 2
    /\ PageArrived(0)
    /\ PageArrived(1)
    /\ ReportAt(1) < ReportAt(0)

-----------------------------------------------------------------------------
(* C12                                                                      *)

\* The contact the parser reads of a property: that of the entry selected, if
\* there is one and it has a contact
HasSelectedContact(property) ==
    /\ SelectHomeownerEntry(property) # 0
    /\ property.phone_numbers[SelectHomeownerEntry(property)].hasContact

SelectedContact(property) ==
    property.phone_numbers[SelectHomeownerEntry(property)].contact

\* The <<number, type tag>> pairs of a contact's phones
PhonesOf(c) ==
    { pair \in { << c.phone_1, c.phone_1_type >>, << c.phone_2, c.phone_2_type >>,
                 << c.phone_3, c.phone_3_type >> } : pair[1] # Null }

\* The tag is "W" or "w"
TagIsW(t) == t \in { << "W" >>, << "w" >> }

NotBlank(ch) == ch \notin Whitespace

\* The tag is "W" or "w" once the whitespace around it is dropped
TagIsWTrimmed(t) == t # Null /\ TagIsW(SelectSeq(t, NotBlank))

\* The properties of a page whose selected contact has a phone tagged "W",
\* with and without regard to whitespace around the tag
WithMobile(props) ==
    { i \in DOMAIN props :
        /\ HasSelectedContact(props[i])
        /\ \E pair \in PhonesOf(SelectedContact(props[i])) : TagIsWTrimmed(pair[2]) }

WithMobileExact(props) ==
    { i \in DOMAIN props :
        /\ HasSelectedContact(props[i])
        /\ \E pair \in PhonesOf(SelectedContact(props[i])) : TagIsW(pair[2]) }

-----------------------------------------------------------------------------
(* C13                                                                      *)

\* The positions of `rows` that hold the first row of their key
FirstOfKey(rows) ==
    { i \in DOMAIN rows : \A j \in 1..(i - 1) : DedupKey(rows[j]) # DedupKey(rows[i]) }

\* The k-th smallest member of a set of positions
NthOf(positions, k) ==
    CHOOSE i \in positions : Cardinality({ j \in positions : j < i }) = k - 1

\* C13: the de-duplication returns the rows at the positions that hold the
\* first row of their key, in the order of the input: so its output is a
\* subsequence of the input, no two rows of it have the same key, every key of
\* the input is there with its earliest row, and de-duplicating the output
\* again changes nothing.
C13_DedupKeepsFirst ==
    called = "dedup" =>
      /\ Len(returned) = Cardinality(FirstOfKey(given))
      /\ \A k \in DOMAIN returned : returned[k] = given[NthOf(FirstOfKey(given), k)]
      /\ \A k, l \in DOMAIN returned :
           k # l => DedupKey(returned[k]) # DedupKey(returned[l])
      /\ \A i \in DOMAIN given :
           \E k \in DOMAIN returned :
             /\ DedupKey(returned[k]) = DedupKey(given[i])
             /\ returned[k] = given[CHOOSE j \in FirstOfKey(given) :
                                      DedupKey(given[j]) = DedupKey(given[i])]
      /\ Dedup(returned) = returned

\* Rows were de-duplicated of which the first and the last have the same key
\* and differ, with a row of another key between them; the last was dropped
C13_Witness ==
    /\ called = "dedup"
    /\ Len(given) = 3
    /\ DedupKey(given[1]) = DedupKey(given[3])
    /\ given[1] # given[3]
    /\ DedupKey(given[1]) # DedupKey(given[2])
    /\ returned = << given[1], given[2] >>

-----------------------------------------------------------------------------
(* C14                                                                      *)

\* Whether position i of a CSV text lies inside a quoted field: an odd number
\* of quotes come before it
Quoted(text, i) == Cardinality({ j \in 1..(i - 1) : text[j] = "\"" }) % 2 = 1

\* The positions of the line ends and of the commas that separate records and
\* fields
RecordEnds(text) == { i \in DOMAIN text : text[i] = "\n" /\ ~Quoted(text, i) }
FieldEnds(text) == { i \in DOMAIN text : text[i] = "," /\ ~Quoted(text, i) }

\* The number of fields of the record that ends at position e
FieldsOfRecord(text, e) ==
    1 + Cardinality({ i \in FieldEnds(text) :
                        /\ i < e
                        /\ \A b \in RecordEnds(text) : b < e => b < i })

\* The rows that survive the de-duplication
Survivors(allRows) == { allRows[i] : i \in FirstOfKey(allRows) }

\* The largest member of a set of numbers, 0 for the empty set
Largest(numbers) ==
    IF numbers = {} THEN 0 ELSE CHOOSE n \in numbers : \A m \in numbers : m <= n

\* The width of the table the export made
Width(b) == 5 + 2 * b.maxPhones + b.maxEmails

\* C14: the CSV is rectangular.  maxPhones and maxEmails are the largest
\* numbers of phones and of e-mails among the rows that survive the
\* de-duplication, both in 0..3; the text is the header and one record per
\* surviving row, every one of 5 + 2 * maxPhones + maxEmails fields; and a
\* row's fields after its own phones and e-mails are empty.
C14_Rectangular ==
    called = "buildCsv" =>
      /\ returned.maxPhones = Largest({ Len(r.phones) : r \in Survivors(given) })
      /\ returned.maxEmails = Largest({ Len(r.emails) : r \in Survivors(given) })
      /\ returned.maxPhones \in 0..3
      /\ returned.maxEmails \in 0..3
      /\ returned.rows = Cardinality(FirstOfKey(given))
      /\ Cardinality(RecordEnds(returned.csv)) = 1 + returned.rows
      /\ returned.csv # << >> /\ returned.csv[Len(returned.csv)] = "\n"
      /\ \A e \in RecordEnds(returned.csv) :
           FieldsOfRecord(returned.csv, e) = Width(returned)
      /\ Len(CsvHeaderFields(returned.maxPhones, returned.maxEmails)) = Width(returned)
      /\ \A r \in Survivors(given) :
           LET fields == CsvRowFields(r, returned.maxPhones, returned.maxEmails)
           IN  /\ Len(fields) = Width(returned)
               /\ \A k \in (5 + 2 * Len(r.phones) + 1)..(5 + 2 * returned.maxPhones) :
                    fields[k] = << >>
               /\ \A k \in (5 + 2 * returned.maxPhones + Len(r.emails) + 1)..Width(returned) :
                    fields[k] = << >>

\* A table was made of rows of which a dropped duplicate has more phones and
\* e-mails than any row that survives, and of which a surviving row is
\* narrower than the table
C14_Witness ==
    /\ called = "buildCsv"
    /\ \E i \in DOMAIN given :
         /\ i \notin FirstOfKey(given)
         /\ Len(given[i].phones) > returned.maxPhones
         /\ Len(given[i].emails) > returned.maxEmails
    /\ \E r \in Survivors(given) : Len(r.phones) < returned.maxPhones
    /\ returned.rows >= 2

-----------------------------------------------------------------------------
(* C15                                                                      *)

\* The request carries a token with a character that is not white space
HasToken(in) ==
    /\ in.parseable
    /\ in.tokenIsString
    /\ \E i \in DOMAIN in.token : in.token[i] \notin Whitespace

\* An entry that is five digits between white space
FiveDigits(z) ==
    \E a \in DOMAIN z :
        /\ a + 4 \in DOMAIN z
        /\ \A i \in DOMAIN z :
             IF i \in a..(a + 4) THEN z[i] \in Digits ELSE z[i] \in Whitespace

\* The request carries a list of zips with such an entry
HasZip(in) ==
    /\ in.parseable
    /\ in.zipsIsArray
    /\ \E i \in DOMAIN in.zips : FiveDigits(in.zips[i])

\* C15: once POST has answered, a request without a token (missing, or empty
\* after trimming) or without a zip of five digits (the list missing, empty,
\* or left empty by the filter) was answered with status 400, no line was
\* written to a stream and no upstream call was made; every other request
\* started the run, with the trimmed token and the surviving zips.
C15_RejectedBeforeStream ==
    pc # "request" =>
      IF HasToken(input) /\ HasZip(input)
        THEN /\ response.status = 200
             /\ stream # << >>
             /\ calls # << >>
             /\ token # << >> /\ token = Trim(input.token)
             /\ zips # << >> /\ \A i \in DOMAIN zips : IsZip(zips[i])
        ELSE /\ response.status = 400
             /\ pc = "rejected"
             /\ stream = << >>
             /\ calls = << >>
             /\ ~closed

\* A request whose token is white space only was rejected
C15_Witness ==
    /\ pc = "rejected"
    /\ input.tokenIsString /\ input.token # << >>
    /\ HasZip(input)
    /\ response = [ status |-> 400, body |-> "Empty token" ]

-----------------------------------------------------------------------------
(* C16                                                                      *)

\* A response with a non-success status (or none at all, or no JSON), or with
\* an error or invalid marker in its body
BadResponse(resp) ==
    \/ resp.transport # "ok"
    \/ resp.body.error
    \/ ("valid" \in DOMAIN resp.body /\ ~resp.body.valid)

\* The response the last resumption was handed is a page's
IsPageResponse(resp) == "properties" \in DOMAIN resp.body

\* The line a page fetch's return wrote about its page: the last line while
\* other fetches are out, and the line before the export's three closing lines
\* when it was the last fetch
FetchReport ==
    IF pc = "export_fetch" THEN stream[Len(stream)] ELSE stream[Len(stream) - 3]

\* C16: none of the four upstream operations returns normally on a response
\* with a non-success status or an error or invalid marker.  A count read, a
\* build or a bulk delete handed such a response throws, which ends the run
\* with an ERROR line; a page fetch handed one throws into its worker's catch,
\* which reports the page as failed.
C16_BadResponseFails ==
    (reply # NoReply /\ BadResponse(reply)) =>
      IF IsPageResponse(reply)
        THEN FetchReport.text = "Error fetching page"
        ELSE pc = "failed" /\ IsError(stream[Len(stream)])

-----------------------------------------------------------------------------
(* C17                                                                      *)

\* The text of a CSV with one phone pair and no e-mail column whose one data
\* row is John Doe of "1 A St, LA" with the mobile +155501
ScenarioHeader == << "f", "i", "r", "s", "t", "N", "a", "m", "e", ",", "l", "a", "s", "t", "N", "a", "m", "e", ",", "p", "r", "o", "p", "e", "r", "t", "y", "A", "d", "d", "r", "e", "s", "s", ",", "a", "d", "d", "y", "_", "t", "w", "o", ",", "m", "o", "b", "i", "l", "e", ",", "p", "h", "o", "n", "e", "1", ",", "p", "h", "o", "n", "e", "1", "_", "t", "y", "p", "e", "\n" >>
ScenarioRow == << "J", "o", "h", "n", ",", "D", "o", "e", ",", "\"", "1", " ", "A", " ", "S", "t", ",", " ", "L", "A", "\"", ",", "1", " ", "A", " ", "S", "t", ",", "+", "1", "5", "5", "5", "0", "1", ",", "+", "1", "5", "5", "5", "0", "1", ",", "W", "\n" >>
ScenarioCsv == ScenarioHeader \o ScenarioRow

\* The run is for the one region 90210, its first count read 0, the build
\* reported SmallCount as its target, and the export's count read SmallCount
ScenarioRun ==
    /\ zips = << Zip90210 >>
    /\ Len(stream) >= 3
    /\ stream[3] = CountLine("Leads already detected", NoZip, 0)
    /\ \E i \in DOMAIN stream :
         stream[i] = CountLine("Build count (expected)", Zip90210, SmallCount)
    /\ \E i \in DOMAIN stream : stream[i] = ExportingLine(Zip90210, SmallCount, 1, 1)

\* The one page of the export was just fetched, and it held the two
\* properties: one whose contact has a "W" phone, one whose contact has none
ScenarioPageFetched ==
    /\ ScenarioRun
    /\ pc = "cleanup_count"
    /\ reply = [ transport |-> "ok", body |-> RawPage(<< PropMobile, PropNoMobile >>) ]

\* No delete call was made before the first build call
NoPreDelete ==
    \A i \in DOMAIN calls :
        calls[i].op = "delete" => \E j \in 1..(i - 1) : calls[j].op = "build"

\* The positions of the csv events for 90210 and of the "Done." line
CsvPositions == { i \in DOMAIN stream : IsCsv(stream[i]) /\ stream[i].zip = Zip90210 }
DonePositions == { i \in DOMAIN stream : stream[i] = DoneLine }

\* C17: in the run of the scenario no delete is issued before the build; when
\* the page has been fetched the stream holds the line "CSV built with 1
\* homeowner row(s)" and then one csv event for 90210 that carries the header
\* and the one data row of the property with the "W" phone, and no "Done."
\* line yet; and a "Done." line of this run comes after the one csv event,
\* which carries that CSV whenever the upstream answered nothing out of the
\* ordinary.
C17_EndToEnd ==
    /\ ScenarioRun => NoPreDelete
    /\ ScenarioPageFetched =>
         /\ stream[Len(stream) - 2] =
              CsvBuiltLine(Zip90210, [ rows |-> 1, maxPhones |-> 1, maxEmails |-> 0 ])
         /\ stream[Len(stream) - 1] = CsvEvent(Zip90210, Base64(ScenarioCsv))
         /\ CsvPositions = { Len(stream) - 1 }
         /\ DonePositions = {}
         /\ Cardinality(RecordEnds(ScenarioCsv)) = 1 + 1
    /\ (ScenarioRun /\ DonePositions # {}) =>
         /\ Cardinality(CsvPositions) = 1
         /\ \A i \in CsvPositions, j \in DonePositions :
              /\ i < j
              /\ anomalies = 0 => stream[i] = CsvEvent(Zip90210, Base64(ScenarioCsv))

\* The run of the scenario is done, the upstream having answered nothing out
\* of the ordinary
C17_Witness ==
    /\ ScenarioRun
    /\ DonePositions # {}
    /\ anomalies = 0
    /\ \E i \in DOMAIN stream : stream[i] = PageLine(Zip90210, 0, 1)

-----------------------------------------------------------------------------
(* C18                                                                      *)

IsDigit(c) == c \in Digits

\* s matches /^\+?[0-9]*$/
IsPlusDigits(s) == \A i \in DOMAIN s : s[i] \in Digits \/ (i = 1 /\ s[i] = "+")

\* The first character of s that is not white space is a "+"
StartsWithPlus(s) ==
    \E i \in DOMAIN s : s[i] = "+" /\ \A j \in 1..(i - 1) : s[j] \in Whitespace

\* s is null, empty or white space only
IsBlank(s) == s = Null \/ \A i \in DOMAIN s : s[i] \in Whitespace

Normalized1 == << "+", "1", "5", "5", "5", "0", "1", "2", "3", "4", "5", "6" >>
Normalized2 == << "5", "5", "5", "0", "1", "2", "3", "4", "5", "6" >>

\* C18: normalizePhone returns "" for a null or blank input; for any other
\* input it returns the input's digits in their order, with one "+" in front
\* exactly when the input's first character after trimming is "+".  So the
\* result matches ^\+?[0-9]*$, "+1 (555) 012-3456" gives "+15550123456",
\* "555.012.3456" gives "5550123456", and normalising a result returns it.
C18_NormalizePhone ==
    called = "normalizePhone" =>
      /\ IsBlank(given) => returned = << >>
      /\ ~IsBlank(given) =>
           returned = (IF StartsWithPlus(given) THEN << "+" >> ELSE << >>)
                      \o SelectSeq(given, IsDigit)
      /\ IsPlusDigits(returned)
      /\ given = PhoneIntl => returned = Normalized1
      /\ given = PhoneDotted => returned = Normalized2
      /\ NormalizePhone(returned) = returned

\* A number with white space before its "+" and a character in between was
\* normalised
C18_Witness ==
    /\ called = "normalizePhone"
    /\ given # Null
    /\ Len(given) >= 3 /\ given[1] \in Whitespace
    /\ Len(returned) = 2 /\ returned[1] = "+"
    /\ Len(returned) < Len(given)

-----------------------------------------------------------------------------
(* C19                                                                      *)

IsUpper(c) == \E i \in DOMAIN Uppers : Uppers[i] = c
IsLower(c) == \E i \in DOMAIN Lowers : Lowers[i] = c

NameJohnCased == << "J", "o", "h", "n" >>
NameJoAnnCased == << "J", "o", "-", "a", "n", "n" >>

\* C19: capitalizeFirstOnly leaves the empty string unchanged and otherwise
\* returns a string whose first character is no lower-case letter and whose
\* other characters are no upper-case letters ("JOHN" gives "John", "jo-ANN"
\* gives "Jo-ann"); recasing its result returns it; and the firstName of every
\* row that parseHomeownersFromPage returns is recased to itself.
C19_Recasing ==
    /\ called = "capitalizeFirstOnly" =>
         /\ given = << >> => returned = << >>
         /\ given = NameJohn => returned = NameJohnCased
         /\ given = NameJoAnn => returned = NameJoAnnCased
         /\ returned # << >> => ~IsLower(returned[1])
         /\ \A i \in 2..Len(returned) : ~IsUpper(returned[i])
         /\ CapitalizeFirstOnly(returned) = returned
    /\ called = "parseHomeownersFromPage" =>
         \A i \in DOMAIN returned :
             CapitalizeFirstOnly(returned[i].firstName) = returned[i].firstName

-----------------------------------------------------------------------------
(* C20                                                                      *)

\* The response carries a count: success status, no error marker, valid, and
\* a number as total_lead_count
CarriesCount(resp) ==
    /\ resp.transport = "ok"
    /\ ~resp.body.error
    /\ resp.body.valid
    /\ resp.body.hasCount

\* The lines a step writes
Written == { stream'[i] : i \in (Len(stream) + 1)..Len(stream') }

\* A step in which a count read of the poll returns a count n: one progress
\* line with n and the target is written, and the poll converges exactly when
\* n is the target, times out exactly when n is not the target and the time
\* since the poll's start is greater than the budget, and otherwise sleeps
PollReadStep ==
    LET n == reply'.body.total_lead_count
    IN  /\ stream' = Append(stream, PollLine(pollLabel, n, pollTarget))
        /\ pc' \in {"poll_converged", "poll_timedout", "poll_sleep"}
        /\ pc' = "poll_converged" <=> n = pollTarget
        /\ pc' = "poll_timedout" <=> (n # pollTarget /\ elapsed' > pollTimeout)
        /\ pc' = "poll_sleep" <=> (n # pollTarget /\ elapsed' <= pollTimeout)
        /\ calls' = calls

\* A step in which the poll's sleep ends: POLL_INTERVAL_MS have passed, no
\* line is written and the next count read is issued
PollSleepStep ==
    /\ pc' = "poll_read"
    /\ elapsed' = elapsed + 5000
    /\ POLL_INTERVAL_MS = 5000
    /\ stream' = stream
    /\ calls' = Append(calls, CountReq(token))
    /\ UNCHANGED << pollLabel, pollTarget, pollTimeout >>

\* C20: a poll converges only on a count read equal to the target, times out
\* only on a count read different from the target with more than the budget
\* elapsed, and otherwise sleeps 5 s and reads again; every count read writes
\* exactly one progress line with the count and the target, and a read that
\* fails writes none.
C20_PollLoop ==
    [][ /\ (pc = "poll_read" /\ CarriesCount(reply')) => PollReadStep
        /\ (pc = "poll_read" /\ ~CarriesCount(reply')) =>
             /\ pc' = "failed"
             /\ \A l \in Written : ~IsPollLine(l)
        /\ pc = "poll_sleep" => PollSleepStep
        /\ pc \notin {"poll_read"} =>
             \A l \in Written : ~IsPollLine(l)
      ]_vars

\* A count read that returned exactly when the budget was used up, with a
\* count above the target, was followed by a sleep and the next read
C20_Witness ==
    /\ pc = "poll_read"
    /\ elapsed = pollTimeout + POLL_INTERVAL_MS
    /\ IsPollLine(stream[Len(stream)])
    /\ stream[Len(stream)].current > stream[Len(stream)].target

-----------------------------------------------------------------------------
(* C21                                                                      *)

\* The export's line "Exporting <total> leads across <pages> page(s) ..."
ExportingLines == SelectSeq(stream, LAMBDA l : ~l.json /\ l.text = "Exporting")

\* The page fetches issued so far, in the order of their issue
Fetches == SelectSeq(calls, LAMBDA c : c.op = "fetch")

\* The number of page fetches that were issued and have not yet settled
InFlight == Cardinality({ i \in 1..Len(Fetches) : slotWrites[i - 1] = 0 })

\* The smaller of the cap and the page count
Cap == IF maxConcurrency < pages THEN maxConcurrency ELSE pages

\* While an export with leads to fetch runs: the page count is the least
\* number of pages of 100 that hold the total, there are min(cap, pages)
\* workers, the k-th fetch issued is that of offset 100 * (k - 1), one fetch
\* was issued per claim, and at most min(cap, pages) fetches are in flight;
\* when the export is over the offsets fetched are 0, 100, ..., 100 * (pages - 1)
PoolShape ==
    (pc \in {"export_fetch", "cleanup_count"} /\ pages > 0) =>
      /\ Len(ExportingLines) = 1
      /\ ExportingLines[1].pages = pages
      /\ ExportingLines[1].concurrency = Cap
      /\ 100 * (pages - 1) < ExportingLines[1].total
      /\ ExportingLines[1].total <= 100 * pages
      /\ Len(workers) = Cap
      /\ Len(Fetches) = idx
      /\ Len(Fetches) = Len(claims)
      /\ idx <= pages
      /\ \A k \in DOMAIN Fetches :
           Fetches[k].begin = 100 * (k - 1) /\ Fetches[k].limit = 100
      /\ InFlight <= Cap
      /\ InFlight = Cardinality({ w \in DOMAIN workers : workers[w] # Finished })
      /\ pc = "export_fetch" => InFlight >= 1
      /\ pc = "cleanup_count" => (Len(Fetches) = pages /\ InFlight = 0)

\* A step of the export moves the cursor forward by one for every claim it
\* makes, the claims taking the indices from the cursor on; the return of a
\* page fetch makes at most one claim
CursorStep ==
    pc \in {"export_count", "export_fetch"} =>
      /\ idx' >= idx
      /\ Len(claims') = Len(claims) + (idx' - idx)
      /\ \A k \in 1..(idx' - idx) : claims'[Len(claims) + k][2] = idx + k - 1
      /\ pc = "export_fetch" => idx' - idx <= 1

\* C21: the export spawns min(cap, pageCount) workers, pageCount being
\* ceil(total / 100) and the offsets 0, 100, ..., 100 * (pageCount - 1); never
\* more than min(cap, pageCount) fetches are in flight; the claim cursor only
\* increases, by one per claim.
C21_CappedPool == []PoolShape /\ [][CursorStep]_vars

\* A list whose last page is not full is exported by a single worker, which
\* has claimed the second page after the first
C21_Witness ==
    /\ pc = "export_fetch"
    /\ leads = LargeCount
    /\ pages = 2
    /\ maxConcurrency = 1
    /\ Len(workers) = 1
    /\ idx = 2
    /\ InFlight = 1

-----------------------------------------------------------------------------
(* C22                                                                      *)

\* The page fetch failed (no response, a non-success status, a body that is
\* no JSON) or its page cannot be parsed (a property's address is a number)
PageFailed(resp) ==
    \/ resp.transport # "ok"
    \/ /\ resp.body.propertiesIsArray
       /\ \E i \in DOMAIN resp.body.properties :
            resp.body.properties[i].property_address_full = NumberValue

\* The line a worker's catch writes about the page at offset begin
IsPageErrorLine(l, zip, begin) ==
    ~l.json /\ l.text = "Error fetching page" /\ l.zip = zip /\ l.begin = begin

\* The step in which worker w's fetch of page index i fails: slot i becomes
\* the empty list and no other slot changes; the first line written is the
\* one error line about the page, and no ERROR line is written; the other
\* workers keep their pages; w claims the next page if one is left, and
\* returns if none is; and when no worker is left the csv event is written and
\* the cleanup's count read is issued
AbsorbedBy(w, i) ==
    /\ slotWrites' = [ slotWrites EXCEPT ![i] = 1 ]
    /\ DOMAIN results' = DOMAIN results \cup {i}
    /\ results'[i] = << >>
    /\ \A j \in DOMAIN results : results'[j] = results[j]
    /\ IsPageErrorLine(stream'[Len(stream) + 1], zips[zi], 100 * i)
    /\ Cardinality({ k \in (Len(stream) + 1)..Len(stream') :
                       ~stream'[k].json /\ stream'[k].text = "Error fetching page" }) = 1
    /\ \A l \in Written : ~IsError(l)
    /\ pc' # "failed"
    /\ ~closed'
    /\ \A v \in DOMAIN workers : v # w => workers'[v] = workers[v]
    /\ IF idx < pages
         THEN /\ workers'[w] = idx
              /\ idx' = idx + 1
              /\ calls' = Append(calls, FetchReq(token, 100 * idx))
              /\ pc' = "export_fetch"
         ELSE /\ workers'[w] = Finished
              /\ idx' = idx
              /\ IF \E v \in DOMAIN workers : v # w /\ workers[v] # Finished
                   THEN /\ pc' = "export_fetch"
                        /\ calls' = calls
                        /\ \A l \in Written : ~IsCsv(l)
                   ELSE /\ pc' = "cleanup_count"
                        /\ calls' = Append(calls, CountReq(token))
                        /\ Cardinality({ k \in (Len(stream) + 1)..Len(stream') :
                                           IsCsv(stream'[k]) }) = 1

\* C22: a page whose fetch or parse fails is absorbed by its worker: the slot
\* is the empty list, one inline error line is written, the worker goes on
\* with the next page, the other workers are not touched, and the export
\* still ends in the csv event and the cleanup, without an ERROR line.
C22_PageFailureAbsorbed ==
    [][ (pc = "export_fetch" /\ PageFailed(reply')) =>
          \E w \in DOMAIN workers :
              /\ workers[w] # Finished
              /\ slotWrites'[workers[w]] = 1
              /\ AbsorbedBy(w, workers[w]) ]_vars

\* Two workers exported three pages; the fetch of the first page failed, the
\* worker that had claimed it went on to claim the third, the second page
\* arrived, and the csv event was written without an ERROR line
C22_Witness ==
    /\ pc = "cleanup_count"
    /\ pages = 3
    /\ Len(workers) = 2
    /\ \E k \in DOMAIN stream : IsPageErrorLine(stream[k], Zip90210, 0)
    /\ \E k \in DOMAIN claims : claims[k][2] = 2 /\ << claims[k][1], 0 >> = claims[1]
    /\ PageArrived(1)
    /\ Len(CsvEvents) = 1
    /\ ~HasError

-----------------------------------------------------------------------------
(* C23                                                                      *)

\* The positions of the lines "CSV built ..." and of the page reports
CsvBuiltPositions == { k \in DOMAIN stream : ~stream[k].json /\ stream[k].text = "CSV built" }
PageReportPositions ==
    { k \in DOMAIN stream :
        ~stream[k].json /\ stream[k].text \in {"Page parsed", "Error fetching page"} }
CsvEventPositions == { k \in DOMAIN stream : IsCsv(stream[k]) }

\* C23: while a page fetch of the export is in flight no CSV has been built
\* and no csv event written; once the CSV is built every page was claimed and
\* its slot written, by success or by failure, every worker has returned, and
\* the report of every page precedes the line about the CSV.
C23_AfterAllPages ==
    pages > 0 =>
      /\ (InFlight > 0 \/ pc = "export_fetch") =>
           (CsvBuiltPositions = {} /\ CsvEventPositions = {})
      /\ (CsvBuiltPositions # {} \/ CsvEventPositions # {}) =>
           /\ idx = pages
           /\ \A i \in 0..(pages - 1) : slotWrites[i] = 1 /\ i \in DOMAIN results
           /\ \A w \in DOMAIN workers : workers[w] = Finished
           /\ Cardinality(PageReportPositions) = pages
           /\ Cardinality(CsvBuiltPositions) = 1
           /\ Cardinality(CsvEventPositions) = 1
           /\ \A k \in PageReportPositions, c \in CsvBuiltPositions \cup CsvEventPositions :
                k < c

\* The CSV was built of the pages of several workers, of which one returned
\* before another's last fetch came back
C23_Witness ==
    /\ pc = "cleanup_count"
    /\ pages = 2
    /\ Len(workers) = 2
    /\ CsvEventPositions # {}
    /\ Cardinality(PageReportPositions) = 2
    /\ ReportAt(1) < ReportAt(0)

-----------------------------------------------------------------------------
(* C24                                                                      *)

\* C24: when a count read of a poll comes back with a non-success status, an
\* error or invalid marker, or no count, the step that receives it ends the
\* run: the ERROR line is the one line written, the stream is closed, and no
\* call is issued, then or later.
C24_PollReadFailureFatal ==
    /\ [][ (pc = "poll_read" /\ ~CarriesCount(reply')) =>
             /\ pc' = "failed"
             /\ Len(stream') = Len(stream) + 1
             /\ IsError(stream'[Len(stream')])
             /\ closed'
             /\ calls' = calls ]_vars
    /\ [][ pc = "failed" => (calls' = calls /\ stream' = stream /\ pc' = "failed") ]_vars

\* A poll whose first count read did not show the target slept and read
\* again, the second read came back without a count, and the run has failed
\* on it
C24_Witness ==
    /\ pc = "failed"
    /\ reply.transport = "ok"
    /\ "hasCount" \in DOMAIN reply.body
    /\ ~reply.body.hasCount
    /\ Len(stream) >= 2
    /\ IsPollLine(stream[Len(stream) - 1])
    /\ IsError(LastLine)
    /\ LastLine.msg.name = "Count missing total_lead_count"
    /\ calls[Len(calls)].op = "count"

-----------------------------------------------------------------------------
(* C25                                                                      *)

\* The letters of "owner" in either case
OwnerLetters == << {"o", "O"}, {"w", "W"}, {"n", "N"}, {"e", "E"}, {"r", "R"} >>

\* The string holds the word "owner", in whatever case
HoldsOwner(s) ==
    /\ s # Null
    /\ \E i \in 1..(Len(s) - 4) : \A k \in 1..5 : s[i + k - 1] \in OwnerLetters[k]

\* A flag of the entry or of its contact is set, or one of their role, type
\* and relationship strings holds the word
LooksLikeOwner(e) ==
    \/ e.is_owner \/ e.is_primary \/ e.homeowner
    \/ HoldsOwner(e.role) \/ HoldsOwner(e.type) \/ HoldsOwner(e.relationship)
    \/ /\ e.hasContact
       /\ \/ e.contact.is_owner \/ e.contact.is_primary \/ e.contact.primary
          \/ e.contact.homeowner \/ e.contact.owner
          \/ HoldsOwner(e.contact.role) \/ HoldsOwner(e.contact.type)
          \/ HoldsOwner(e.contact.relationship) \/ HoldsOwner(e.contact.contact_type)

\* The entries of a property, none when phone_numbers is no array
EntriesOf(property) ==
    IF property.phoneNumbersIsArray THEN property.phone_numbers ELSE << >>

\* C25: selectHomeownerEntry picks, of a property with entries, the entry of
\* the lowest index that a flag or the word "owner" marks, and the first entry
\* when none is marked; of a property without entries it picks none.
C25_HomeownerSelection ==
    called = "selectHomeownerEntry" =>
      LET list == EntriesOf(given)
          marked == { i \in DOMAIN list : LooksLikeOwner(list[i]) }
      IN  IF list = << >> THEN returned = 0
          ELSE IF marked = {} THEN returned = 1
          ELSE returned \in marked /\ \A m \in marked : returned <= m

\* The second of three entries was picked: the first is not marked, and the
\* third is marked as well
C25_Witness ==
    /\ called = "selectHomeownerEntry"
    /\ Len(EntriesOf(given)) = 3
    /\ returned = 2
    /\ ~LooksLikeOwner(given.phone_numbers[1])
    /\ given.phone_numbers[1] = EntryTenant
    /\ given.phone_numbers[2] = EntryOwnType
    /\ LooksLikeOwner(given.phone_numbers[3])

-----------------------------------------------------------------------------
(* C26                                                                      *)

\* The properties of a page that have contact entries: phone_numbers is an
\* array, and not an empty one
WithEntries(props) ==
    { i \in DOMAIN props :
        props[i].phoneNumbersIsArray /\ props[i].phone_numbers # << >> }

\* C26: a page's rows are made of different properties with contact entries,
\* in the properties' order, each row bearing its property's address; so a
\* property without contact entries gives no row, no property gives more than
\* one, and a page gives no more rows than it has properties.
C26_AtMostOneRow ==
    called = "parseHomeownersFromPage" =>
      IF ~given.propertiesIsArray THEN returned = << >>
      ELSE /\ Len(returned) <= Cardinality(WithEntries(given.properties))
           /\ Len(returned) <= Len(given.properties)
           /\ WithEntries(given.properties) = {} => returned = << >>
           /\ \E from \in [ DOMAIN returned -> WithEntries(given.properties) ] :
                /\ \A j, k \in DOMAIN returned : j < k => from[j] < from[k]
                /\ \A k \in DOMAIN returned :
                     returned[k].propertyAddress =
                       OrEmpty(given.properties[from[k]].property_address_full)

\* A page of a property with an empty list of entries and a property with two
\* entries, each with a "W" phone, was parsed to one row
C26_Witness ==
    /\ called = "parseHomeownersFromPage"
    /\ given.propertiesIsArray
    /\ given.properties = << PropEmptyList, PropDuplicate >>
    /\ Len(returned) = 1

-----------------------------------------------------------------------------
(* C27                                                                      *)

\* A number as it is kept: nothing for an absent or blank one, else its digits
\* behind a "+" if its first character that is no white space is one
Kept(num) ==
    IF IsBlank(num) THEN << >>
    ELSE (IF StartsWithPlus(num) THEN << "+" >> ELSE << >>) \o SelectSeq(num, IsDigit)

\* The slots of a contact that give a phone: not blank, and no earlier slot
\* holds the same number
FirstSlots(slots) ==
    { i \in DOMAIN slots :
        /\ Kept(slots[i].num) # << >>
        /\ \A j \in 1..(i - 1) : Kept(slots[j].num) # Kept(slots[i].num) }

\* C27: the phones of a contact are those of its three slots that are not
\* blank and do not repeat the number of an earlier slot, in slot order, each
\* with the number normalised and the type of its own slot: between 0 and 3
\* phones with pairwise distinct numbers.
C27_ContactPhones ==
    called = "phoneTriples" =>
      LET phones == returned.phones
      IN  /\ Len(given) = 3
          /\ Len(phones) \in 0..3
          /\ Len(phones) = Cardinality(FirstSlots(given))
          /\ \A j, k \in DOMAIN phones : j # k => phones[j].number # phones[k].number
          /\ \A k \in DOMAIN phones : phones[k].number # << >>
          /\ \E from \in [ DOMAIN phones -> FirstSlots(given) ] :
               /\ \A j, k \in DOMAIN phones : j < k => from[j] < from[k]
               /\ \A k \in DOMAIN phones :
                    /\ phones[k].number = Kept(given[from[k]].num)
                    /\ phones[k].type = SelectSeq(given[from[k]].typ, NotBlank)

\* A contact whose first slot is blank and whose third slot repeats the
\* number of the second in another spelling and with another type has one
\* phone, of the second slot's type
C27_Witness ==
    /\ called = "phoneTriples"
    /\ given[1].num = TokenBlank
    /\ given[2] = [ num |-> Phone2, typ |-> TypeLSpaced ]
    /\ given[3] = [ num |-> Phone2Spaced, typ |-> TypeW ]
    /\ Len(returned.phones) = 1
    /\ returned.phones[1].type = TypeL
    /\ returned.mobile = << >>

-----------------------------------------------------------------------------
(* C28                                                                      *)

\* The positions of the characters of s that are no white space
Inked(s) == { i \in DOMAIN s : s[i] \notin Whitespace }

Least(set) == CHOOSE n \in set : \A m \in set : n <= m

\* s without the white space around it; nothing for an absent or blank s
Trimmed(s) ==
    IF IsBlank(s) THEN << >> ELSE SubSeq(s, Least(Inked(s)), Largest(Inked(s)))

\* The first and the last word of a string that is not blank
FirstWord(s) ==
    LET a == Least(Inked(s))
    IN  SubSeq(s, a, Largest({ j \in a..Len(s) : \A k \in a..j : k \in Inked(s) }))
LastWord(s) ==
    LET z == Largest(Inked(s))
    IN  SubSeq(s, Least({ j \in 1..z : \A k \in j..z : k \in Inked(s) }), z)

\* C28: first and last are the trimmed given name and surname when either of
\* them is not empty; when both are, they are the first and the last word of
\* the full name, the last being empty if the full name is one word; and both
\* are empty when the full name is absent or blank too.
C28_NameResolution ==
    called = "contactFirstLast" =>
      LET first == Trimmed(given.given_name)
          last == Trimmed(given.surname)
          full == given.full_name
      IN  IF first # << >> \/ last # << >>
            THEN returned = [ first |-> first, last |-> last ]
          ELSE IF IsBlank(full)
            THEN returned = [ first |-> << >>, last |-> << >> ]
          ELSE IF Trimmed(full) = FirstWord(full)
            THEN returned = [ first |-> FirstWord(full), last |-> << >> ]
          ELSE returned = [ first |-> FirstWord(full), last |-> LastWord(full) ]

\* A contact with a blank given name, no surname and a full name of three
\* words was resolved to the first and the third word
C28_Witness ==
    /\ called = "contactFirstLast"
    /\ given.given_name = TokenBlank
    /\ given.surname = Null
    /\ given.full_name = FullName
    /\ returned = [ first |-> << "m", "a", "r", "y" >>,
                    last |-> << "P", "u", "b", "l", "i", "c" >> ]

-----------------------------------------------------------------------------
(* C29                                                                      *)

\* The two components rows are compared by: the full address without the
\* white space around it and in lower case, and the digits of the mobile
AddressPart(r) == ToLowerCase(Trimmed(r.propertyAddress))
MobilePart(r) == SelectSeq(r.mobile, LAMBDA c : c \in Digits)

Duplicates(r, q) ==
    AddressPart(r) = AddressPart(q) /\ MobilePart(r) = MobilePart(q)

\* The positions of the rows that no earlier row is a duplicate of
Originals(rows) ==
    { i \in DOMAIN rows : \A j \in 1..(i - 1) : ~Duplicates(rows[j], rows[i]) }

\* C29: the de-duplication drops a row if and only if an earlier row has the
\* same trimmed, lower-cased full address and the same mobile digits: the rows
\* it returns are those that differ from every earlier row in one of the two.
C29_DuplicateRows ==
    called = "dedup" =>
      /\ Len(returned) = Cardinality(Originals(given))
      /\ \A k \in DOMAIN returned : returned[k] = given[NthOf(Originals(given), k)]

\* Three rows were de-duplicated: the second has the address of the first in
\* another case and its mobile without the leading "+", and was dropped; the
\* third has the mobile of the first at another address, and was kept
C29_Witness ==
    /\ called = "dedup"
    /\ Len(given) = 3
    /\ given[1].propertyAddress # given[2].propertyAddress
    /\ given[1].mobile = << "+" >> \o given[2].mobile
    /\ given[3].mobile = given[1].mobile
    /\ AddressPart(given[3]) # AddressPart(given[1])
    /\ returned = << given[1], given[3] >>

-----------------------------------------------------------------------------
(* C30                                                                      *)

\* Whether a field holds a comma, a double quote or a line feed
NeedsQuoting(field) == \E i \in DOMAIN field : field[i] \in {",", "\"", "\n"}

\* The number of double quotes of a field before position i
QuotesBefore(field, i) == Cardinality({ j \in 1..(i - 1) : field[j] = "\"" })

\* Where character i of a field stands in its quoted form: behind the opening
\* quote and behind the second quote of every quote before it
PlaceOf(field, i) == 1 + i + QuotesBefore(field, i)

\* The quoted form of a field: the field between two quotes, each quote of it
\* followed by a second one
IsQuotedForm(text, field) ==
    /\ Len(text) = Len(field) + QuotesBefore(field, Len(field) + 1) + 2
    /\ text[1] = "\""
    /\ text[Len(text)] = "\""
    /\ \A i \in DOMAIN field :
         /\ text[PlaceOf(field, i)] = field[i]
         /\ field[i] = "\"" => text[PlaceOf(field, i) + 1] = "\""

\* Reading a field of a CSV record back: a field between quotes loses them and
\* every pair of quotes in it becomes one quote; another field is taken as is
RECURSIVE Undouble(_)
Undouble(text) ==
    IF text = << >> THEN << >>
    ELSE IF Len(text) >= 2 /\ text[1] = "\"" /\ text[2] = "\""
      THEN << "\"" >> \o Undouble(SubSeq(text, 3, Len(text)))
    ELSE << Head(text) >> \o Undouble(Tail(text))

Unescape(text) ==
    IF Len(text) >= 2 /\ text[1] = "\"" /\ text[Len(text)] = "\""
      THEN Undouble(SubSeq(text, 2, Len(text) - 1))
      ELSE text

\* C30: a field with a comma, a double quote or a line feed is emitted between
\* double quotes with each of its double quotes doubled, any other field is
\* emitted as it is, and reading the emitted field back gives the field.
C30_CsvEscaping ==
    called = "escapeCsvValue" =>
      /\ IF NeedsQuoting(given) THEN IsQuotedForm(returned, given)
                                ELSE returned = given
      /\ Unescape(returned) = given

\* A field of a quote, a comma and a quote was emitted in seven characters
C30_Witness ==
    /\ called = "escapeCsvValue"
    /\ given = << "\"", ",", "\"" >>
    /\ returned = << "\"", "\"", "\"", ",", "\"", "\"", "\"" >>

-----------------------------------------------------------------------------
(* C31                                                                      *)

\* Reading a base64 text back: four characters give three bytes, less one for
\* each "=" at the end, and a byte gives its character
SextetOf(c) == (CHOOSE n \in 1..64 : Base64Alphabet[n] = c) - 1

ByteOf(data, m) ==
    LET at == 4 * ((m - 1) \div 3)
        s1 == SextetOf(data[at + 1])
        s2 == SextetOf(data[at + 2])
        s3 == SextetOf(data[at + 3])
        s4 == SextetOf(data[at + 4])
    IN  IF (m - 1) % 3 = 0 THEN s1 * 4 + s2 \div 16
        ELSE IF (m - 1) % 3 = 1 THEN (s2 % 16) * 16 + s3 \div 4
        ELSE (s3 % 4) * 64 + s4

CharOf(byte) == IF byte = 10 THEN "\n" ELSE IF byte = 9 THEN "\t" ELSE Ascii[byte - 31]

Decoded(data) ==
    LET padding == Cardinality({ k \in DOMAIN data : data[k] = "=" })
    IN  [ m \in 1..(3 * (Len(data) \div 4) - padding) |-> CharOf(ByteOf(data, m)) ]

\* The header of a CSV without phone and e-mail columns
FixedColumns ==
    << "f", "i", "r", "s", "t", "N", "a", "m", "e", ",",
       "l", "a", "s", "t", "N", "a", "m", "e", ",",
       "p", "r", "o", "p", "e", "r", "t", "y", "A", "d", "d", "r", "e", "s", "s", ",",
       "a", "d", "d", "y", "_", "t", "w", "o", ",",
       "m", "o", "b", "i", "l", "e" >>

IsNothingLine(l) == ~l.json /\ l.text = "Nothing to export (0 leads)"
IsNoRowsLine(l) == ~l.json /\ l.text = "CSV built" /\ l.rows = 0

\* Every CSV sent starts with the five fixed columns, and is those columns and
\* a line end when the export found nothing or kept no row
HeaderFirst ==
    \A k \in DOMAIN stream :
      IsCsv(stream[k]) =>
        LET csv == Decoded(stream[k].dataBase64)
        IN  /\ Len(csv) > Len(FixedColumns)
            /\ SubSeq(csv, 1, Len(FixedColumns)) = FixedColumns
            /\ csv[Len(FixedColumns) + 1] \in {",", "\n"}
            /\ k > 1
            /\ IsNothingLine(stream[k - 1]) \/ IsNoRowsLine(stream[k - 1]) =>
                 csv = FixedColumns \o << "\n" >>

\* A step in which the export finds nothing: its csv event is written at once
\* and no page was fetched since the region's build call, nor will one be
NothingStep ==
    (\E l \in Written : IsNothingLine(l)) =>
      /\ \E l \in Written : IsCsv(l)
      /\ pc' # "export_fetch"
      /\ \A i \in DOMAIN calls' :
           IsFetchCall(calls'[i]) => \E j \in (i + 1)..Len(calls') : IsBuildCall(calls'[j])

\* C31: the CSV of every csv event starts with the header; when the count read
\* by the export is not positive no page is fetched and the CSV is the five
\* fixed columns alone, and so it is when no row is left of the pages parsed.
C31_HeaderAlways == []HeaderFirst /\ [][NothingStep]_vars

\* A run sent one CSV for a region whose export found nothing and one for a
\* region whose only page was parsed and gave no row, both the five columns
\* alone
C31_Witness ==
    /\ \E k \in DOMAIN stream : IsNothingLine(stream[k]) /\ IsCsv(stream[k + 1])
    /\ \E k \in DOMAIN stream :
         /\ IsNoRowsLine(stream[k])
         /\ k > 1
         /\ ~stream[k - 1].json /\ stream[k - 1].text = "Page parsed"
         /\ stream[k - 1].rows = 0
         /\ IsCsv(stream[k + 1])
         /\ Decoded(stream[k + 1].dataBase64) = FixedColumns \o << "\n" >>

-----------------------------------------------------------------------------
(* C32                                                                      *)

\* The positions of the request's entries that are five digits between white
\* space, and the region the k-th of them stands for
Matching == { i \in DOMAIN input.zips : FiveDigits(input.zips[i]) }
RegionOf(k) == SelectSeq(input.zips[NthOf(Matching, k)], LAMBDA c : c \in Digits)

\* The zip a line of the stream is about: none for the lines about the run
ZipOf(l) ==
    IF IsPollLine(l) THEN l.label.zip
    ELSE IF IsError(l) THEN l.msg.zip
    ELSE IF "zip" \in DOMAIN l THEN l.zip
    ELSE NoZip

\* C32: the build calls of a run are for the request's entries of five digits
\* between white space, trimmed, in the order and as many times as the request
\* has them: the k-th call is for the k-th such entry, and a run that ends with
\* "Done." has made a call for each; every line of the stream that names a zip
\* names one that has had its build call.
C32_RegionsProcessed ==
    pc # "request" /\ response.status = 200 =>
      /\ BuildsIssued <= Cardinality(Matching)
      /\ \A k \in 1..BuildsIssued : BuildCalls[k].zip = RegionOf(k)
      /\ (\E i \in DOMAIN stream : IsDone(stream[i])) =>
           BuildsIssued = Cardinality(Matching)
      /\ \A i \in DOMAIN stream :
           \/ ZipOf(stream[i]) \in {NoZip, InitTag}
           \/ \E k \in 1..BuildsIssued : ZipOf(stream[i]) = RegionOf(k)

\* A run for a list of four entries, of which the second and the fourth are
\* the same five digits and the others no zips, ended with "Done." after two
\* build calls for those five digits
C32_Witness ==
    /\ input.zips = << ZipAlpha, Zip10001, ZipShort, Zip10001 >>
    /\ \E i \in DOMAIN stream : IsDone(stream[i])
    /\ BuildsIssued = 2
    /\ BuildCalls[1].zip = Zip10001
    /\ BuildCalls[2].zip = Zip10001

-----------------------------------------------------------------------------
(* C33                                                                      *)

\* The shape of a line that is not empty: a csv event, a phase event, or
\* neither
CsvShaped(l) ==
    /\ l.kind = "json"
    /\ l.value.type = TypeCsv
    /\ \A v \in { l.value.zip, l.value.filename, l.value.dataBase64 } :
         v \notin { Null, NumberValue }
PhaseShaped(l) ==
    /\ l.kind = "json"
    /\ l.value.type = TypePhase
    /\ l.value.message \notin { Null, << >> }

\* C33: a line that is not empty is taken as a csv event (a download is added)
\* exactly when it parses to an object of type "csv" with strings for zip,
\* filename and dataBase64, as a phase event (its message is logged) exactly
\* when it parses to an object of type "phase" with a message, and as a plain
\* line, logged as it is, otherwise; the events the run writes are taken as
\* events and its text lines as plain lines.
C33_LineClasses ==
    called = "handleStreamLine" /\ given.kind # "empty" =>
      /\ returned.download <=> CsvShaped(given)
      /\ returned.log = "CSV ready" <=> CsvShaped(given)
      /\ returned.log = "message" <=> PhaseShaped(given)
      /\ returned.log = "line" <=> ~CsvShaped(given) /\ ~PhaseShaped(given)

-----------------------------------------------------------------------------
(* C34                                                                      *)

\* The requests that differ from a request in tags or importToHighLevel and in
\* nothing else
Twins(in) ==
    { other \in Requests :
        /\ other # in
        /\ [ other EXCEPT !.tags = in.tags,
                          !.importToHighLevel = in.importToHighLevel ] = in }

\* C34: the step POST takes for a request is the step it takes, from the same
\* state, for every request that differs from it in tags or importToHighLevel
\* only: the same response, token and zips, the same lines and the same first
\* call.  POST is the only step that reads the request, so two such runs make
\* the same calls and write the same lines while the upstream answers alike.
C34_TagsUnused == [][POST => \A other \in Twins(input) : PostWith(other)]_vars

\* A run for a request with a tag and the import flag, which has a twin
\* without them, made its calls and ended with "Done."
C34_Witness ==
    /\ input.tags # << >>
    /\ input.importToHighLevel
    /\ Twins(input) # {}
    /\ BuildsIssued = 1
    /\ \E i \in DOMAIN stream : IsDone(stream[i])

-----------------------------------------------------------------------------
(* C35                                                                      *)

\* A response to a count read that reports a working set of no leads
ReadsZero(resp) ==
    /\ resp.transport = "ok"
    /\ ~resp.body.error
    /\ resp.body.valid
    /\ resp.body.hasCount
    /\ resp.body.total_lead_count = 0

\* The count read the run made last when it takes a step from this state: the
\* one this step resumes from, or the one its poll converged on
ZeroReadLast ==
    \/ pc = "init_count" /\ ReadsZero(reply')
    \/ pc = "poll_converged" /\ pollLabel.kind = "delete" /\ ReadsZero(reply)

\* A step that issues a build call, and one that writes "Done."
BuildIssued == Len(calls') = Len(calls) + 1 /\ IsBuildCall(calls'[Len(calls')])
DoneWritten == \E l \in Written : IsDone(l)

-----------------------------------------------------------------------------
(* C36                                                                      *)

\* A step that issues a delete call, and one that reports a region finished
DeleteIssued == Len(calls') = Len(calls) + 1 /\ IsDeleteCall(calls'[Len(calls')])
FinishedWritten == \E l \in Written : ~l.json /\ l.text = "Finished"

\* The count a response to a count read reports, when it reports one
Reports(resp, n) ==
    /\ resp.transport = "ok"
    /\ ~resp.body.error
    /\ resp.body.valid
    /\ resp.body.hasCount
    /\ resp.body.total_lead_count = n

\* The step that resumes the cleanup after its count read: whatever count was
\* read, and for 0 too, one delete call is issued, with the count as its
\* total_count, and nothing else
CleanupReadStep ==
    pc = "cleanup_count" /\ pc' # "failed" =>
      /\ DeleteIssued
      /\ pc' = "cleanup_delete"
      /\ \A n \in 0..LargeCount :
           Reports(reply', n) => calls'[Len(calls')].total_count = n

\* C36: the cleanup issues one delete call after its count read whatever the
\* count, with total_count 0 when the count is 0, where Phase 0 issues none for
\* a count of 0; a delete call is issued by no other step; and a region is
\* reported finished only once the cleanup's poll has read 0.
C36_CleanupDeletesAlways ==
    [][ /\ CleanupReadStep
        /\ DeleteIssued => pc \in {"init_count", "cleanup_count"}
        /\ pc = "init_count" /\ Reports(reply', 0) => ~DeleteIssued
        /\ FinishedWritten =>
             /\ pc = "poll_converged"
             /\ pollLabel = [ kind |-> "delete", zip |-> zips[zi] ]
             /\ Reports(reply, 0) ]_vars

\* A run that found no leads at its start and none to export issued its one
\* delete call, with total_count 0, in the cleanup and ended with "Done."
C36_Witness ==
    /\ pc = "done"
    /\ current = 0
    /\ stream[3] = CountLine("Leads already detected", NoZip, 0)
    /\ Len(SelectSeq(calls, IsDeleteCall)) = 1
    /\ \A i \in DOMAIN calls : IsDeleteCall(calls[i]) => calls[i].total_count = 0

-----------------------------------------------------------------------------
(* C37                                                                      *)

\* When the k-th count read of the poll returns, in milliseconds after the
\* poll's start, if the poll gets that far: the reads take their latencies and
\* every sleep before it the interval
ReturnTime(k) ==
    LET latencies[j \in 0..k] ==
          IF j = 0 THEN 0 ELSE latencies[j - 1] + ReadAt(given.script, j).latency
    IN  latencies[k] + (k - 1) * POLL_INTERVAL_MS

\* The last count read of the poll returned the target
LastReadOnTarget ==
    /\ ReadAt(given.script, returned.reads).ok
    /\ ReadAt(given.script, returned.reads).n = given.target

\* C37: whatever the budget the poll makes a count read before it returns, and
\* one more read than sleeps; when its first read returns the target it
\* returns true without a sleep; and when its last read returned the target it
\* returns true, also when that read came back after the budget had run out.
C37_EqualityFirst ==
    called = "pollUntilCountEquals" =>
      /\ returned.reads >= 1
      /\ returned.sleeps = returned.reads - 1
      /\ (ReadAt(given.script, 1).ok /\ ReadAt(given.script, 1).n = given.target) =>
           returned.result = "true" /\ returned.reads = 1 /\ returned.sleeps = 0
      /\ LastReadOnTarget <=> returned.result = "true"

\* A poll slept once and returned true on its second read, which came back
\* after the budget had run out
C37_Witness ==
    /\ called = "pollUntilCountEquals"
    /\ returned.result = "true"
    /\ returned.reads = 2
    /\ ReturnTime(2) > given.timeoutMs
    /\ ReturnTime(1) <= given.timeoutMs
    /\ LastReadOnTarget

-----------------------------------------------------------------------------
(* C38                                                                      *)

\* The reads of the script take no time, so that only the sleeps advance the
\* clock; and no read of the script returns the target
VirtualClock == \A j \in DOMAIN given.script : given.script[j].latency = 0
NeverOnTarget ==
    \A j \in DOMAIN given.script :
      given.script[j].ok /\ given.script[j].n # given.target

\* floor(T / I) + 2 for the budget T of the poll and the interval I
MostReads == given.timeoutMs \div POLL_INTERVAL_MS + 2

\* C38: when the reads take no time and the count is never the target, the
\* poll returns false after exactly floor(T/I) + 2 count reads and
\* floor(T/I) + 1 sleeps; no poll makes more count reads than that; and every
\* read a sleep followed had come back by the deadline.
C38_ReadCount ==
    called = "pollUntilCountEquals" =>
      /\ (VirtualClock /\ NeverOnTarget) =>
           /\ returned.result = "false"
           /\ returned.reads = MostReads
           /\ returned.sleeps = MostReads - 1
      /\ returned.reads <= MostReads
      /\ \A k \in 1..(returned.reads - 1) : ReturnTime(k) <= given.timeoutMs

\* A poll with a budget of two intervals and a millisecond, whose reads took no
\* time and never returned the target, returned false after four reads and
\* three sleeps
C38_Witness ==
    /\ called = "pollUntilCountEquals"
    /\ given.timeoutMs = 2 * POLL_INTERVAL_MS + 1
    /\ VirtualClock
    /\ NeverOnTarget
    /\ returned = [ result |-> "false", reads |-> 4, sleeps |-> 3,
                    elapsed |-> 3 * POLL_INTERVAL_MS ]

-----------------------------------------------------------------------------
(* C39                                                                      *)

\* The positions of a row's phones whose type is "W" in either case
MobilePhones(row) ==
    { k \in DOMAIN row.phones : row.phones[k].type \in { << "W" >>, << "w" >> } }

\* What holds of a row: it has between one and three phones with different
\* numbers, one of them of type "W", and its mobile is the number of the first
\* of those; it has at most three e-mails, none empty
WellFormedRow(row) ==
    /\ Len(row.phones) \in 1..3
    /\ \A j, k \in DOMAIN row.phones : j # k => row.phones[j].number # row.phones[k].number
    /\ MobilePhones(row) # {}
    /\ row.mobile # << >>
    /\ row.mobile = row.phones[Least(MobilePhones(row))].number
    /\ Len(row.emails) \in 0..3
    /\ \A k \in DOMAIN row.emails : row.emails[k] # << >>

\* C39: every row the parser returns has a mobile that is not empty and is the
\* number of the first phone of its list whose type is "W" in either case; its
\* list of phones is not empty, has at most 3 entries and no number twice; its
\* list of e-mails has at most 3 entries and no empty one.
C39_RowShape ==
    called = "parseHomeownersFromPage" =>
      \A k \in DOMAIN returned : WellFormedRow(returned[k])

\* A page gave a row of two phones of which the second, of type "w", is the
\* mobile, and a row of three phones and three e-mails
C39_Witness ==
    /\ called = "parseHomeownersFromPage"
    /\ \E k \in DOMAIN returned :
         /\ Len(returned[k].phones) = 2
         /\ Least(MobilePhones(returned[k])) = 2
         /\ returned[k].phones[2].type = << "w" >>
    /\ \E k \in DOMAIN returned :
         /\ Len(returned[k].phones) = 3
         /\ Len(returned[k].emails) = 3

-----------------------------------------------------------------------------
(* C40                                                                      *)

\* The entry of a property that is selected: the first that a flag or the word
\* "owner" marks, the first of all when none is marked, 0 when there is none
Picked(property) ==
    LET list == EntriesOf(property)
        marked == { i \in DOMAIN list : LooksLikeOwner(list[i]) }
    IN  IF list = << >> THEN 0 ELSE IF marked = {} THEN 1 ELSE Least(marked)

\* Whether an entry has a contact with a phone of type "W" that is not the
\* repetition of the number of an earlier slot
HasMobile(entry) ==
    /\ entry.hasContact
    /\ LET c == entry.contact
           slots == << [ num |-> c.phone_1, typ |-> c.phone_1_type ],
                       [ num |-> c.phone_2, typ |-> c.phone_2_type ],
                       [ num |-> c.phone_3, typ |-> c.phone_3_type ] >>
       IN  \E i \in FirstSlots(slots) : TagIsWTrimmed(slots[i].typ)

\* The properties of a page whose selected entry has no contact or no such
\* phone, and those of them with such a phone in another entry
Barren(props) ==
    { i \in DOMAIN props :
        Picked(props[i]) # 0 /\ ~HasMobile(props[i].phone_numbers[Picked(props[i])]) }
BarrenWithMobile(props) ==
    { i \in Barren(props) :
        \E e \in DOMAIN props[i].phone_numbers : HasMobile(props[i].phone_numbers[e]) }

\* C40: a property whose selected entry has no contact, or whose selected
\* contact is left without a phone of type "W" once the numbers it repeats are
\* dropped, gives no row, whatever its other entries hold: a page gives no
\* more rows than it has other properties, and none when it has no other.
C40_NoFallback ==
    called = "parseHomeownersFromPage" /\ given.propertiesIsArray =>
      /\ Len(returned) <= Len(given.properties) - Cardinality(Barren(given.properties))
      /\ Barren(given.properties) = DOMAIN given.properties => returned = << >>

\* A page of two properties gave no row: the selected entry of one has no
\* contact, that of the other a "W" slot that repeats its land line, and both
\* have a second entry with a "W" phone
C40_Witness ==
    /\ called = "parseHomeownersFromPage"
    /\ given.propertiesIsArray
    /\ given.properties = << PropOwnerNoContact, PropOwnerRepeated >>
    /\ BarrenWithMobile(given.properties) = {1, 2}
    /\ returned = << >>

====
